---- MODULE Spec2Model ----
(***************************************************************************)
(* event-spark: the swipe deck (SwipeStack + EventCard), the Decision      *)
(* Store (lib/storage) and the Item Source (lib/supabase).                 *)
(*                                                                         *)
(* Item ids are opaque strings in the program; here they are 1..MaxEvents. *)
(* The deck's item list is events = <<1, .., n>>.  currentIndex is the     *)
(* 0-based cursor of the code, so the top card is events[currentIndex+1].  *)
(***************************************************************************)
EXTENDS Integers, Sequences, FiniteSets, TLC

\* ------------------------------------------------------------------ bounds
MaxEvents == 3      \* longest item list handed to the deck
MaxPasses == 1      \* times the deck is started again (Start Over or a page reload)
MaxStale == 1       \* pending exit animations of cards that are no longer on top
MaxStoreIds == 2    \* ids handed to the Decision Store's own operations
MaxCreated == 1     \* events created in the demo-mode storage
MaxItems == 4       \* longest item list whose window is rendered

\* ------------------------------------------------------- program constants
SWIPE_THRESHOLD == 100

Ids == 1..MaxEvents
Directions == {"left", "right"}
NoDirection == "none"
NoEvent == 0
Offsets == {-150, -100, 80, 100, 150}

VARIABLES
    events,             \* SwipeStack prop: the ordered item list
    currentIndex,       \* SwipeStack state: the deck cursor
    exitDirection,      \* SwipeStack state: programmatic exit in flight, or "none"
    saved,              \* localStorage['event-spark-saved-events'], raw
    dismissed,          \* localStorage['event-spark-dismissed-events'], raw
    isAnimating,        \* EventCard isAnimatingRef of the top card
    lastExitDirection,  \* EventCard lastExitDirectionRef of the top card
    anim,               \* direction of the top card's running animate() promise
    stale,              \* animate() promises [card, dir] of cards no longer on top
    selectedEvent,      \* Home state: the event shown in the detail modal
    detailIsSaved,      \* EventDetail state isSaved
    passes,             \* how often the deck was started again
    step,               \* history: the handler that ran last and how it ended
    swipeLog,           \* history: the completed swipes <<id, direction>>, while logging
    logging,            \* history: swipeLog is kept (until an item is swiped twice)
    tracking,           \* history: a pending animation remembers the card it belongs to
    returned,           \* what the last Decision Store call returned or threw
    trip,               \* history: the last saveEventId and the removeEventId after it
    mode,               \* the environment: "demo", "unconfigured" or "configured"
    demoEvents,         \* localStorage['demo_events_storage'], raw
    created,            \* events created in the demo storage so far
    result,             \* what the last Item Source call resolved to, or its rejection
    shown,              \* history: what the last observed render of SwipeStack put on screen
    page,               \* the screen that is loading: "home", "saved", "event", "admin"
    mounted,            \* the screen's component is mounted
    loadingState,       \* the screen's reducer state: loadingState
    retryCount,         \* the screen's state retryCount, the effect's dependency
    fetches,            \* the Item Source calls the screen started, in start order
    modal,              \* the saved page's EventDetail: "none", "open" or "exiting"
    rateLimitStore,     \* middleware: the Map from client key to { count, resetTime }
    now,                \* middleware: what Date.now() returns, in ms
    admitted            \* history: per client, its window and the requests let through in it

vars == <<events, currentIndex, exitDirection, saved, dismissed, isAnimating,
          lastExitDirection, anim, stale, selectedEvent, detailIsSaved,
          passes, step, swipeLog, logging, tracking, returned, trip, mode, demoEvents,
          created, result, shown,
          page, mounted, loadingState, retryCount, fetches, modal,
          rateLimitStore, now, admitted>>

Range(s) == {s[i] : i \in 1..Len(s)}

RemoveAt(s, i) == SubSeq(s, 1, i - 1) \o SubSeq(s, i + 1, Len(s))

RECURSIVE InjSeqs(_, _)
\* the sequences without repetition over S, of length at most n
InjSeqs(S, n) ==
    IF n = 0 THEN {<<>>}
    ELSE LET shorter == InjSeqs(S, n - 1)
         IN  shorter \cup UNION {{Append(s, x) : x \in S \ Range(s)} : s \in shorter}

\* ---------------------------------------------------------- raw storage
\* What a localStorage key can hold, by how the code's JSON.parse and the
\* Array methods it then calls react to it:
\*   absent  - getItem returns null (or the empty string): falsy
\*   array   - a JSON array of ids
\*   nonjson - not JSON: JSON.parse throws SyntaxError
\*   object  - JSON object, number, boolean or null: .includes/.filter/.push
\*             are not functions (TypeError)
\*   string  - a JSON string: .includes is the substring test (ids lists the
\*             ids that occur in it), .push and .filter are not functions
Absent == [kind |-> "absent", ids |-> <<>>]
Arr(s) == [kind |-> "array", ids |-> s]
NonJson == [kind |-> "nonjson", ids |-> <<>>]
JsonObject == [kind |-> "object", ids |-> <<>>]
JsonString(s) == [kind |-> "string", ids |-> s]

StoreIds == 1..MaxStoreIds
Malformed == {NonJson, JsonObject} \cup {JsonString(s) : s \in InjSeqs(StoreIds, 1)}
WellFormed == {Absent} \cup {Arr(s) : s \in InjSeqs(StoreIds, MaxStoreIds)}

Returned(v) == [threw |-> FALSE, val |-> v]
Threw == [threw |-> TRUE, val |-> Absent]
\* a call that returns undefined
Undefined == Returned(Absent)

getSavedEventIds(raw) ==
    IF raw.kind = "absent" THEN Returned(Arr(<<>>))
    ELSE IF raw.kind = "nonjson" THEN Threw
    ELSE Returned(raw)

getDismissedEventIds(raw) ==
    IF raw.kind = "absent" THEN Returned(Arr(<<>>))
    ELSE IF raw.kind = "nonjson" THEN Threw
    ELSE Returned(raw)

\* Array.prototype.includes / String.prototype.includes
HasIncludes(v) == v.kind \in {"array", "string"}
Includes(v, id) == id \in Range(v.ids)

\* AddId with unshift in place of push
AddId_Unshift(r, raw, eventId, full) ==
    IF r.threw \/ ~HasIncludes(r.val) THEN [threw |-> TRUE, raw |-> raw]
    ELSE IF Includes(r.val, eventId) THEN [threw |-> FALSE, raw |-> raw]
    ELSE IF r.val.kind # "array" \/ full THEN [threw |-> TRUE, raw |-> raw]
    ELSE [threw |-> FALSE, raw |-> Arr(<<eventId>> \o r.val.ids)]

\* AddId without the includes test: the id is pushed every time
AddId_Always(r, raw, eventId, full) ==
    IF r.threw \/ ~HasIncludes(r.val) THEN [threw |-> TRUE, raw |-> raw]
    ELSE IF r.val.kind # "array" \/ full THEN [threw |-> TRUE, raw |-> raw]
    ELSE [threw |-> FALSE, raw |-> Arr(Append(r.val.ids, eventId))]

\* saved.includes, saved.push and localStorage.setItem of saveEventId and of
\* dismissEventId, after the read; full: setItem throws QuotaExceededError
AddId(r, raw, eventId, full) ==
    IF r.threw \/ ~HasIncludes(r.val) THEN [threw |-> TRUE, raw |-> raw]
    ELSE IF Includes(r.val, eventId) THEN [threw |-> FALSE, raw |-> raw]
    ELSE IF r.val.kind # "array" \/ full THEN [threw |-> TRUE, raw |-> raw]
    ELSE [threw |-> FALSE, raw |-> Arr(Append(r.val.ids, eventId))]

saveEventId(raw, eventId, full) == AddId(getSavedEventIds(raw), raw, eventId, full)

dismissEventId(raw, eventId, full) == AddId(getDismissedEventIds(raw), raw, eventId, full)

Filter(s, eventId) == SelectSeq(s, LAMBDA x : x # eventId)

\* removeEventId with the test of its filter inverted
removeEventId_KeepsOnlyId(raw, eventId, full) ==
    LET r == getSavedEventIds(raw)
    IN  IF r.threw \/ r.val.kind # "array" \/ full THEN [threw |-> TRUE, raw |-> raw]
        ELSE [threw |-> FALSE, raw |-> Arr(SelectSeq(r.val.ids, LAMBDA x : x = eventId))]

removeEventId(raw, eventId, full) ==
    LET r == getSavedEventIds(raw)
    IN  IF r.threw \/ r.val.kind # "array" \/ full THEN [threw |-> TRUE, raw |-> raw]
        ELSE [threw |-> FALSE, raw |-> Arr(Filter(r.val.ids, eventId))]

\* [threw, val]: val is the boolean returned
isEventSaved(raw, eventId) ==
    LET r == getSavedEventIds(raw)
    IN  IF r.threw \/ ~HasIncludes(r.val) THEN [threw |-> TRUE, val |-> FALSE]
        ELSE [threw |-> FALSE, val |-> Includes(r.val, eventId)]

clearDismissed(raw) == Absent

\* ------------------------------------------------------------ SwipeStack
hasMoreEvents == currentIndex < Len(events)
currentEvent == IF hasMoreEvents THEN events[currentIndex + 1] ELSE NoEvent

\* the slice without its end: every event from the cursor on
visibleEvents_ToEnd == SubSeq(events, currentIndex + 1, Len(events))

\* events.slice(currentIndex, currentIndex + 3)
visibleEvents == SubSeq(events, currentIndex + 1,
                        IF currentIndex + 3 < Len(events) THEN currentIndex + 3 ELSE Len(events))

\* What SwipeStack returns: the "No more events" view with its Start Over
\* button, or the stack of the visible cards, top card first.
View(view, cards) == [view |-> view, cards |-> cards]
NoView == View("none", <<>>)

\* render that tells the end of the list only once the cursor is past it
render_PastEnd ==
    IF currentIndex > Len(events)
    THEN View("exhausted", <<>>)
    ELSE View("stack", visibleEvents)

render ==
    IF ~hasMoreEvents \/ Len(visibleEvents) = 0
    THEN View("exhausted", <<>>)
    ELSE View("stack", visibleEvents)

\* Home.renderContent once the events are loaded: an empty list gets the
\* "No Events Found" message and no SwipeStack, any other list the SwipeStack.
renderContent ==
    IF Len(events) = 0 THEN View("noEvents", <<>>) ELSE render

\* op: the handler; card: the card the input or the exit animation belongs to;
\* id: the item the handler acted on; dir: its direction; outcome: how it ended
Did(op, card, id, dir, outcome) ==
    [op |-> op, card |-> card, id |-> id, dir |-> dir, outcome |-> outcome]

StoresUnchanged == UNCHANGED <<saved, dismissed>>
HistoryUnchanged == UNCHANGED <<swipeLog, logging>>
ModalUnchanged == UNCHANGED <<selectedEvent, detailIsSaved>>
CardUnchanged == UNCHANGED <<isAnimating, lastExitDirection, anim, stale>>
SessionUnchanged == UNCHANGED <<events, passes, tracking>>
StoreCallsUnchanged == UNCHANGED <<returned, trip>>
SourceUnchanged == UNCHANGED <<mode, demoEvents, created, result>>
ApiUnchanged == StoreCallsUnchanged /\ SourceUnchanged
ScreenIdle == UNCHANGED <<page, mounted, loadingState, retryCount, fetches, modal>>
LimiterIdle == UNCHANGED <<rateLimitStore, now, admitted>>

\* events[stateRef.current.currentIndex], undefined (NoEvent) past the end
eventAt_OffByOne(index) == IF index + 1 < Len(events) THEN events[index + 2] ELSE NoEvent

\* the lookup with the index clamped to the last event
eventAt_Clamped(index) ==
    IF Len(events) = 0 THEN NoEvent
    ELSE IF index < Len(events) THEN events[index + 1] ELSE events[Len(events)]

\* the lookup that starts again at the first event past the end
eventAt_Wraps(index) ==
    IF Len(events) = 0 THEN NoEvent ELSE events[(index % Len(events)) + 1]

eventAt(index) == IF index < Len(events) THEN events[index + 1] ELSE NoEvent

\* the updater of setCurrentIndex
NextIndex_Twice(prev) == prev + 2

NextIndex(prev) == prev + 1

\* the history of a completed swipe of item id in direction
LogSwipe(id, direction) ==
    /\ logging' = (logging /\ \A i \in 1..Len(swipeLog) : swipeLog[i][1] # id)
    /\ swipeLog' = IF logging' THEN Append(swipeLog, <<id, direction>>) ELSE <<>>

\* handleSwipeComplete with the two state updates queued before the store write
handleSwipeComplete_AdvanceFirst(direction, full, op, card) ==
    /\ SessionUnchanged
    /\ LET id == eventAt(currentIndex)
       IN  IF id = NoEvent
           THEN /\ UNCHANGED <<currentIndex, exitDirection>>
                /\ StoresUnchanged
                /\ HistoryUnchanged
                /\ step' = Did(op, card, NoEvent, direction, "noEvent")
           ELSE LET w == IF direction = "right" THEN saveEventId(saved, id, full)
                         ELSE dismissEventId(dismissed, id, full)
                IN  IF w.threw
                    THEN /\ currentIndex' = NextIndex(currentIndex)
                         /\ exitDirection' = NoDirection
                         /\ StoresUnchanged
                         /\ HistoryUnchanged
                         /\ step' = Did(op, card, id, direction, "throw")
                    ELSE /\ IF direction = "right"
                            THEN saved' = w.raw /\ UNCHANGED dismissed
                            ELSE dismissed' = w.raw /\ UNCHANGED saved
                         /\ currentIndex' = NextIndex(currentIndex)
                         /\ exitDirection' = NoDirection
                         /\ LogSwipe(id, direction)
                         /\ step' = Did(op, card, id, direction, "commit")

\* SwipeStack.handleSwipeComplete: record the decision, then advance.
\* op names the path that called it and card the card that path belongs to.
handleSwipeComplete(direction, full, op, card) ==
    /\ SessionUnchanged
    /\ LET id == eventAt(currentIndex)
       IN  IF id = NoEvent
           THEN /\ UNCHANGED <<currentIndex, exitDirection>>
                /\ StoresUnchanged
                /\ HistoryUnchanged
                /\ step' = Did(op, card, NoEvent, direction, "noEvent")
           ELSE LET w == IF direction = "right" THEN saveEventId(saved, id, full)
                         ELSE dismissEventId(dismissed, id, full)
                IN  IF w.threw
                    THEN /\ UNCHANGED <<currentIndex, exitDirection>>
                         /\ StoresUnchanged
                         /\ HistoryUnchanged
                         /\ step' = Did(op, card, id, direction, "throw")
                    ELSE /\ IF direction = "right"
                            THEN saved' = w.raw /\ UNCHANGED dismissed
                            ELSE dismissed' = w.raw /\ UNCHANGED saved
                         /\ currentIndex' = NextIndex(currentIndex)
                         /\ exitDirection' = NoDirection
                         /\ LogSwipe(id, direction)
                         /\ step' = Did(op, card, id, direction, "commit")

\* What a commit does to the cards: the old top card leaves the top, its
\* running animation (if any) stays pending, the next card is a new
\* EventCard instance with fresh refs.
TopCardReplaced(pending) ==
    /\ stale' = IF anim = NoDirection THEN pending
                ELSE Append(pending, [card |-> IF tracking THEN currentEvent ELSE NoEvent,
                                      dir |-> anim])
    /\ anim' = NoDirection
    /\ isAnimating' = FALSE
    /\ lastExitDirection' = NoDirection

\* swipeDirection with the threshold itself counted as beyond it
swipeDirection_Inclusive(offset) ==
    IF offset >= SWIPE_THRESHOLD THEN "right"
    ELSE IF offset <= -SWIPE_THRESHOLD THEN "left"
    ELSE NoDirection

\* The two tests of EventCard.handleDragEnd on info.offset.x: the direction
\* handed to onDragSwipe, or none when neither test holds.
swipeDirection(offset) ==
    IF offset > SWIPE_THRESHOLD THEN "right"
    ELSE IF offset < -SWIPE_THRESHOLD THEN "left"
    ELSE NoDirection

\* EventCard.handleDragEnd -> SwipeStack.handleDragSwipe -> handleSwipeComplete.
\* Only the top card is draggable, and not through the open detail modal.
\* A release that calls nothing leaves the card to its dragConstraints
\* {left: 0, right: 0}: it snaps back.
DragEnd(offset, full) ==
    /\ ApiUnchanged
    /\ UNCHANGED shown
    /\ ScreenIdle
    /\ LimiterIdle
    /\ hasMoreEvents
    /\ selectedEvent = NoEvent
    /\ anim # NoDirection => Len(stale) < MaxStale
    /\ UNCHANGED <<selectedEvent, detailIsSaved>>
    /\ IF swipeDirection(offset) # NoDirection
       THEN /\ handleSwipeComplete(swipeDirection(offset), full, "drag", currentEvent)
            /\ IF currentIndex' # currentIndex
               THEN TopCardReplaced(stale)
               ELSE CardUnchanged
       ELSE /\ SessionUnchanged
            /\ UNCHANGED <<currentIndex, exitDirection>>
            /\ StoresUnchanged
            /\ HistoryUnchanged
            /\ CardUnchanged
            /\ step' = Did("drag", currentEvent, NoEvent, NoDirection, "snapBack")

\* handleButtonSwipe without the exitDirection test of its guard
handleButtonSwipe_NoGuard(direction) ==
    /\ ApiUnchanged
    /\ UNCHANGED shown
    /\ ScreenIdle
    /\ LimiterIdle
    /\ SessionUnchanged
    /\ UNCHANGED <<currentIndex, stale>>
    /\ StoresUnchanged
    /\ HistoryUnchanged
    /\ ModalUnchanged
    /\ IF ~hasMoreEvents
       THEN /\ UNCHANGED <<exitDirection, isAnimating, lastExitDirection, anim>>
            /\ step' = Did("button", currentEvent, NoEvent, direction, "ignored")
       ELSE /\ exitDirection' = direction
            /\ IF isAnimating \/ lastExitDirection = direction
               THEN UNCHANGED <<isAnimating, lastExitDirection, anim>>
               ELSE /\ isAnimating' = TRUE
                    /\ lastExitDirection' = direction
                    /\ anim' = direction
            /\ step' = Did("button", currentEvent, currentEvent, direction, "accepted")

\* SwipeStack.handleButtonSwipe (the two buttons and the arrow keys), and the
\* layout effect of the top EventCard that the new exitDirection triggers.
handleButtonSwipe(direction) ==
    /\ ApiUnchanged
    /\ UNCHANGED shown
    /\ ScreenIdle
    /\ LimiterIdle
    /\ SessionUnchanged
    /\ UNCHANGED <<currentIndex, stale>>
    /\ StoresUnchanged
    /\ HistoryUnchanged
    /\ ModalUnchanged
    /\ IF ~hasMoreEvents \/ exitDirection # NoDirection
       THEN /\ UNCHANGED <<exitDirection, isAnimating, lastExitDirection, anim>>
            /\ step' = Did("button", currentEvent, NoEvent, direction, "ignored")
       ELSE /\ exitDirection' = direction
            /\ IF isAnimating \/ lastExitDirection = direction
               THEN UNCHANGED <<isAnimating, lastExitDirection, anim>>
               ELSE /\ isAnimating' = TRUE
                    /\ lastExitDirection' = direction
                    /\ anim' = direction
            /\ step' = Did("button", currentEvent, currentEvent, direction, "accepted")

ButtonSwipe(direction) == handleButtonSwipe(direction)

\* EventCard: the animate() promise of the top card resolves; its then-callback
\* calls onAnimationComplete(exitDirection) and then clears isAnimatingRef.
AnimationComplete(full) ==
    /\ ApiUnchanged
    /\ UNCHANGED shown
    /\ ScreenIdle
    /\ LimiterIdle
    /\ anim # NoDirection
    /\ ModalUnchanged
    /\ handleSwipeComplete(anim, full, "animation", currentEvent)
    /\ IF currentIndex' # currentIndex
       THEN /\ anim' = NoDirection
            /\ isAnimating' = FALSE
            /\ lastExitDirection' = NoDirection
            /\ UNCHANGED stale
       ELSE \* handleSwipeComplete threw: the callback stops before line 268
            /\ anim' = NoDirection
            /\ UNCHANGED <<isAnimating, lastExitDirection, stale>>

\* The animate() promise of a card that has already left the top resolves
\* (the card is still exiting under AnimatePresence, or was unmounted and the
\* animation library resolves the promise all the same).
StaleAnimationComplete(i, full) ==
    /\ ApiUnchanged
    /\ UNCHANGED shown
    /\ ScreenIdle
    /\ LimiterIdle
    /\ i \in 1..Len(stale)
    /\ ModalUnchanged
    /\ handleSwipeComplete(stale[i].dir, full, "staleAnimation", stale[i].card)
    /\ IF currentIndex' # currentIndex
       THEN TopCardReplaced(RemoveAt(stale, i))
       ELSE /\ stale' = RemoveAt(stale, i)
            /\ UNCHANGED <<isAnimating, lastExitDirection, anim>>

\* ... or the promise of a card that has left the top never resolves (the
\* card was unmounted and the animation stopped).
StaleAnimationDropped(i) ==
    /\ ApiUnchanged
    /\ UNCHANGED shown
    /\ ScreenIdle
    /\ LimiterIdle
    /\ i \in 1..Len(stale)
    /\ stale' = RemoveAt(stale, i)
    /\ step' = Did("animationDropped", stale[i].card, NoEvent, stale[i].dir, "skipped")
    /\ SessionUnchanged
    /\ UNCHANGED <<currentIndex, exitDirection, isAnimating, lastExitDirection, anim>>
    /\ StoresUnchanged
    /\ HistoryUnchanged
    /\ ModalUnchanged

\* handleReset that also forgets the passed events
handleReset_ClearsDismissed ==
    /\ ApiUnchanged
    /\ UNCHANGED shown
    /\ ScreenIdle
    /\ LimiterIdle
    /\ ~hasMoreEvents
    /\ passes < MaxPasses
    /\ passes' = passes + 1
    /\ currentIndex' = 0
    /\ exitDirection' = NoDirection
    /\ isAnimating' = FALSE
    /\ lastExitDirection' = NoDirection
    /\ step' = Did("reset", NoEvent, NoEvent, NoDirection, "ok")
    /\ UNCHANGED <<events, tracking, anim, stale, saved>>
    /\ dismissed' = clearDismissed(dismissed)
    /\ HistoryUnchanged
    /\ ModalUnchanged

\* SwipeStack.handleReset: the Start Over button of the exhausted view.
handleReset ==
    /\ ApiUnchanged
    /\ UNCHANGED shown
    /\ ScreenIdle
    /\ LimiterIdle
    /\ ~hasMoreEvents
    /\ passes < MaxPasses
    /\ passes' = passes + 1
    /\ currentIndex' = 0
    /\ exitDirection' = NoDirection
    /\ isAnimating' = FALSE
    /\ lastExitDirection' = NoDirection
    /\ step' = Did("reset", NoEvent, NoEvent, NoDirection, "ok")
    /\ UNCHANGED <<events, tracking, anim, stale>>
    /\ StoresUnchanged
    /\ HistoryUnchanged
    /\ ModalUnchanged

\* The page is reloaded: component state and pending callbacks are gone,
\* localStorage stays.
Reload ==
    /\ ApiUnchanged
    /\ UNCHANGED shown
    /\ ScreenIdle
    /\ LimiterIdle
    /\ passes < MaxPasses
    /\ passes' = passes + 1
    /\ currentIndex' = 0
    /\ exitDirection' = NoDirection
    /\ isAnimating' = FALSE
    /\ lastExitDirection' = NoDirection
    /\ anim' = NoDirection
    /\ stale' = <<>>
    /\ selectedEvent' = NoEvent
    /\ detailIsSaved' = FALSE
    /\ step' = Did("reload", NoEvent, NoEvent, NoDirection, "ok")
    /\ UNCHANGED <<events, tracking>>
    /\ StoresUnchanged
    /\ HistoryUnchanged

\* Home.handleEventTap (tap on the top card, Enter or Space) and the mount of
\* EventDetail, whose isSaved state starts as isEventSaved(event.id).
EventTap ==
    /\ ApiUnchanged
    /\ UNCHANGED shown
    /\ ScreenIdle
    /\ LimiterIdle
    /\ hasMoreEvents
    /\ selectedEvent = NoEvent
    /\ LET r == isEventSaved(saved, currentEvent)
       IN  IF r.threw
           THEN /\ UNCHANGED <<selectedEvent, detailIsSaved>>
                /\ step' = Did("tap", currentEvent, NoEvent, NoDirection, "throw")
           ELSE /\ selectedEvent' = currentEvent
                /\ detailIsSaved' = r.val
                /\ step' = Did("tap", currentEvent, currentEvent, NoDirection, "ok")
    /\ SessionUnchanged
    /\ UNCHANGED <<currentIndex, exitDirection>>
    /\ StoresUnchanged
    /\ HistoryUnchanged
    /\ CardUnchanged

\* EventDetail.handleSave: the Save/Saved toggle of the detail modal;
\* after a save, onSave is Home.handleSave, which closes the modal.
DetailSave(full) ==
    /\ ApiUnchanged
    /\ UNCHANGED shown
    /\ ScreenIdle
    /\ LimiterIdle
    /\ selectedEvent # NoEvent
    /\ LET w == IF detailIsSaved THEN removeEventId(saved, selectedEvent, full)
                ELSE saveEventId(saved, selectedEvent, full)
       IN  IF w.threw
           THEN /\ UNCHANGED <<saved, selectedEvent, detailIsSaved>>
                /\ step' = Did("detailSave", NoEvent, selectedEvent, NoDirection, "throw")
           ELSE /\ saved' = w.raw
                /\ detailIsSaved' = ~detailIsSaved
                /\ selectedEvent' = IF detailIsSaved THEN selectedEvent ELSE NoEvent
                /\ step' = Did("detailSave", NoEvent, selectedEvent, NoDirection,
                               IF detailIsSaved THEN "removed" ELSE "saved")
    /\ SessionUnchanged
    /\ UNCHANGED <<currentIndex, exitDirection, dismissed, swipeLog, logging>>
    /\ CardUnchanged

\* EventDetail: the Pass button (onPass(); onClose()) and the close button;
\* Home.handlePass and Home.handleCloseDetail both only close the modal.
DetailClose(op) ==
    /\ ApiUnchanged
    /\ UNCHANGED shown
    /\ ScreenIdle
    /\ LimiterIdle
    /\ selectedEvent # NoEvent
    /\ selectedEvent' = NoEvent
    /\ UNCHANGED detailIsSaved
    /\ step' = Did(op, NoEvent, selectedEvent, NoDirection, "closed")
    /\ SessionUnchanged
    /\ UNCHANGED <<currentIndex, exitDirection>>
    /\ StoresUnchanged
    /\ HistoryUnchanged
    /\ CardUnchanged

\* No Decision Store call and no Item Source call has been made.
\* No screen of the app is part of the run.
NoScreen ==
    /\ page = "none"
    /\ mounted = FALSE
    /\ loadingState = "loading"
    /\ retryCount = 0
    /\ fetches = <<>>
    /\ modal = "none"

\* The middleware has seen no request.
NoLimiter ==
    /\ rateLimitStore = [key \in {1, 2} |-> [count |-> 0, resetTime |-> 0]]
    /\ now = 0
    /\ admitted = [key \in {1, 2} |-> [open |-> 0, n |-> 0, seen |-> 0]]

NoTrip == [id |-> NoEvent, before |-> Absent, done |-> FALSE]
NoResult == [tag |-> "none", error |-> "none", data |-> <<>>]
DemoAbsent == [kind |-> "absent", items |-> <<>>]

ApiIdle ==
    /\ returned = Undefined
    /\ trip = NoTrip
    /\ mode = "configured"
    /\ demoEvents = DemoAbsent
    /\ created = 0
    /\ result = NoResult

\* What the two keys hold when the page loads: nothing, ids of an earlier
\* session, or text that is not JSON.
InitSaved == {Absent, Arr(<<2>>), NonJson}
InitDismissed == {Absent, Arr(<<1>>), NonJson}

Init ==
    /\ events \in {[i \in 1..n |-> i] : n \in 0..MaxEvents}
    /\ currentIndex = 0
    /\ exitDirection = NoDirection
    /\ saved \in InitSaved
    /\ dismissed \in InitDismissed
    /\ isAnimating = FALSE
    /\ lastExitDirection = NoDirection
    /\ anim = NoDirection
    /\ stale = <<>>
    /\ selectedEvent = NoEvent
    /\ detailIsSaved = FALSE
    /\ passes = 0
    /\ step = Did("init", NoEvent, NoEvent, NoDirection, "ok")
    /\ swipeLog = <<>>
    /\ ApiIdle
    /\ logging = FALSE
    /\ tracking = FALSE
    /\ shown = NoView
    /\ NoScreen
    /\ NoLimiter

\* The deck: SwipeStack and its cards.
Next ==
    \/ \E offset \in Offsets, full \in BOOLEAN : DragEnd(offset, full)
    \/ \E direction \in Directions : ButtonSwipe(direction)
    \/ \E full \in BOOLEAN : AnimationComplete(full)
    \/ \E i \in 1..MaxStale, full \in BOOLEAN : StaleAnimationComplete(i, full)
    \/ \E i \in 1..MaxStale : StaleAnimationDropped(i)
    \/ handleReset
    \/ Reload

Spec == Init /\ [][Next]_vars

\* The deck with what its scheduling brings about: the promise of a running
\* animate() of the top card settles (after 0.3 s) and its callback runs, and
\* the user goes on pressing the buttons.
SpecLive ==
    /\ Init
    /\ [][Next]_vars
    /\ WF_vars(\E full \in BOOLEAN : AnimationComplete(full))
    /\ WF_vars(\E direction \in Directions : ButtonSwipe(direction))

\* The deck on fresh storage, each exit animation remembering its card.
InitCards ==
    /\ events \in {[i \in 1..n |-> i] : n \in 0..MaxEvents}
    /\ currentIndex = 0
    /\ exitDirection = NoDirection
    /\ saved = Absent
    /\ dismissed = Absent
    /\ isAnimating = FALSE
    /\ lastExitDirection = NoDirection
    /\ anim = NoDirection
    /\ stale = <<>>
    /\ selectedEvent = NoEvent
    /\ detailIsSaved = FALSE
    /\ passes = 0
    /\ step = Did("init", NoEvent, NoEvent, NoDirection, "ok")
    /\ swipeLog = <<>>
    /\ ApiIdle
    /\ logging = FALSE
    /\ tracking = TRUE
    /\ shown = NoView
    /\ NoScreen
    /\ NoLimiter

SpecCards == InitCards /\ [][Next]_vars

\* The deck on fresh storage, with the history of its swipes kept.
InitOrder ==
    /\ events \in {[i \in 1..n |-> i] : n \in 0..MaxEvents}
    /\ currentIndex = 0
    /\ exitDirection = NoDirection
    /\ saved = Absent
    /\ dismissed = Absent
    /\ isAnimating = FALSE
    /\ lastExitDirection = NoDirection
    /\ anim = NoDirection
    /\ stale = <<>>
    /\ selectedEvent = NoEvent
    /\ detailIsSaved = FALSE
    /\ passes = 0
    /\ step = Did("init", NoEvent, NoEvent, NoDirection, "ok")
    /\ swipeLog = <<>>
    /\ ApiIdle
    /\ logging = TRUE
    /\ tracking = FALSE
    /\ shown = NoView
    /\ NoScreen
    /\ NoLimiter

SpecOrder == InitOrder /\ [][Next]_vars

\* SwipeStack is rendered and what it shows is observed.
Render ==
    /\ shown' = render
    /\ step' = Did("render", currentEvent, NoEvent, NoDirection, shown'.view)
    /\ SessionUnchanged
    /\ UNCHANGED <<currentIndex, exitDirection>>
    /\ StoresUnchanged
    /\ HistoryUnchanged
    /\ ModalUnchanged
    /\ CardUnchanged
    /\ ApiUnchanged
    /\ ScreenIdle
    /\ LimiterIdle

\* The deck of any list of up to MaxItems events after its first cards were
\* dragged away one after the other on fresh storage, some to the right and
\* then the others to the left.
InitWindow ==
    /\ events \in InjSeqs(1..MaxItems, MaxItems)
    /\ currentIndex \in 0..MaxItems
    /\ currentIndex <= Len(events)
    /\ exitDirection = NoDirection
    /\ \E kept \in 0..currentIndex :
          /\ saved = IF kept = 0 THEN Absent ELSE Arr(SubSeq(events, 1, kept))
          /\ dismissed = IF kept = currentIndex THEN Absent
                         ELSE Arr(SubSeq(events, kept + 1, currentIndex))
          /\ step = IF currentIndex = 0
                    THEN Did("init", NoEvent, NoEvent, NoDirection, "ok")
                    ELSE Did("drag", events[currentIndex], events[currentIndex],
                             IF kept = currentIndex THEN "right" ELSE "left", "commit")
    /\ isAnimating = FALSE
    /\ lastExitDirection = NoDirection
    /\ anim = NoDirection
    /\ stale = <<>>
    /\ selectedEvent = NoEvent
    /\ detailIsSaved = FALSE
    /\ passes = 0
    /\ swipeLog = <<>>
    /\ ApiIdle
    /\ logging = FALSE
    /\ tracking = FALSE
    /\ shown = NoView
    /\ NoScreen
    /\ NoLimiter

\* The deck as far as its view goes: it is rendered, and Start Over is pressed.
NextWindow ==
    \/ Render
    \/ handleReset

SpecWindow == InitWindow /\ [][NextWindow]_vars

\* The Discover page: the deck and the detail modal over it.
NextHome ==
    \/ Next
    \/ EventTap
    \/ \E full \in BOOLEAN : DetailSave(full)
    \/ \E op \in {"detailPass", "detailClose"} : DetailClose(op)

SpecHome == Init /\ [][NextHome]_vars

\* ------------------------------------------------- the Decision Store
\* The calls of lib/storage, made in any order on storage that may hold
\* anything.  full: localStorage.setItem throws QuotaExceededError.
DeckIdle ==
    /\ UNCHANGED <<events, currentIndex, exitDirection, isAnimating, lastExitDirection,
                   anim, stale, selectedEvent, detailIsSaved, passes, swipeLog, logging,
                   tracking, shown>>
    /\ ScreenIdle
    /\ LimiterIdle

Outcome(r) == IF r.threw THEN "throw" ELSE "ok"

GetSavedEventIds ==
    /\ returned' = getSavedEventIds(saved)
    /\ step' = Did("getSavedEventIds", NoEvent, NoEvent, NoDirection, Outcome(returned'))
    /\ UNCHANGED <<saved, dismissed, trip>>
    /\ DeckIdle
    /\ SourceUnchanged

GetDismissedEventIds ==
    /\ returned' = getDismissedEventIds(dismissed)
    /\ step' = Did("getDismissedEventIds", NoEvent, NoEvent, NoDirection, Outcome(returned'))
    /\ UNCHANGED <<saved, dismissed, trip>>
    /\ DeckIdle
    /\ SourceUnchanged

IsEventSaved(eventId) ==
    /\ returned' = isEventSaved(saved, eventId)
    /\ step' = Did("isEventSaved", NoEvent, eventId, NoDirection, Outcome(returned'))
    /\ UNCHANGED <<saved, dismissed, trip>>
    /\ DeckIdle
    /\ SourceUnchanged

SaveEventId(eventId, full) ==
    /\ LET w == saveEventId(saved, eventId, full)
       IN  /\ saved' = w.raw
           /\ returned' = IF w.threw THEN Threw ELSE Undefined
           /\ trip' = IF w.threw THEN trip
                      ELSE [id |-> eventId, before |-> saved, done |-> FALSE]
           /\ step' = Did("saveEventId", NoEvent, eventId, NoDirection, Outcome(w))
    /\ UNCHANGED dismissed
    /\ DeckIdle
    /\ SourceUnchanged

RemoveEventId(eventId, full) ==
    /\ LET w == removeEventId(saved, eventId, full)
       IN  /\ saved' = w.raw
           /\ returned' = IF w.threw THEN Threw ELSE Undefined
           /\ trip' = IF w.threw THEN trip
                      ELSE IF trip.id = eventId /\ ~trip.done
                           THEN [trip EXCEPT !.done = TRUE]
                           ELSE NoTrip
           /\ step' = Did("removeEventId", NoEvent, eventId, NoDirection, Outcome(w))
    /\ UNCHANGED dismissed
    /\ DeckIdle
    /\ SourceUnchanged

DismissEventId(eventId, full) ==
    /\ LET w == dismissEventId(dismissed, eventId, full)
       IN  /\ dismissed' = w.raw
           /\ returned' = IF w.threw THEN Threw ELSE Undefined
           /\ step' = Did("dismissEventId", NoEvent, eventId, NoDirection, Outcome(w))
    /\ UNCHANGED <<saved, trip>>
    /\ DeckIdle
    /\ SourceUnchanged

\* ClearDismissed that empties the whole localStorage
ClearDismissed_ClearsAll ==
    /\ dismissed' = clearDismissed(dismissed)
    /\ saved' = Absent
    /\ returned' = Undefined
    /\ step' = Did("clearDismissed", NoEvent, NoEvent, NoDirection, "ok")
    /\ UNCHANGED trip
    /\ DeckIdle
    /\ SourceUnchanged

ClearDismissed ==
    /\ dismissed' = clearDismissed(dismissed)
    /\ returned' = Undefined
    /\ step' = Did("clearDismissed", NoEvent, NoEvent, NoDirection, "ok")
    /\ UNCHANGED <<saved, trip>>
    /\ DeckIdle
    /\ SourceUnchanged

InitStore ==
    /\ events = <<>>
    /\ currentIndex = 0
    /\ exitDirection = NoDirection
    /\ saved \in WellFormed \cup Malformed
    /\ dismissed \in WellFormed \cup Malformed
    /\ isAnimating = FALSE
    /\ lastExitDirection = NoDirection
    /\ anim = NoDirection
    /\ stale = <<>>
    /\ selectedEvent = NoEvent
    /\ detailIsSaved = FALSE
    /\ passes = 0
    /\ step = Did("init", NoEvent, NoEvent, NoDirection, "ok")
    /\ swipeLog = <<>>
    /\ logging = FALSE
    /\ tracking = FALSE
    /\ shown = NoView
    /\ NoScreen
    /\ NoLimiter
    /\ ApiIdle

NextStore ==
    \/ GetSavedEventIds
    \/ GetDismissedEventIds
    \/ \E eventId \in StoreIds : IsEventSaved(eventId)
    \/ \E eventId \in StoreIds, full \in BOOLEAN : SaveEventId(eventId, full)
    \/ \E eventId \in StoreIds, full \in BOOLEAN : RemoveEventId(eventId, full)
    \/ \E eventId \in StoreIds, full \in BOOLEAN : DismissEventId(eventId, full)
    \/ ClearDismissed

SpecStore == InitStore /\ [][NextStore]_vars

\* ---------------------------------------------------- the Item Source
\* lib/supabase.  An event is [id, start]: start is its start_date in days
\* from now.  The empty id '' is NoEvent.  In demo mode the events live in
\* localStorage; otherwise a query goes to the backend, whose answer is an
\* input: response is what the client hands back and rows its data.
\* end_date null
NoEnd == 0
Item(id, start) == [id |-> id, start |-> start, end |-> NoEnd]
\* the input of createEvent: start_date and end_date
Input(start, end) == [start |-> start, end |-> end]
DemoArr(items) == [kind |-> "array", items |-> items]
DemoNonJson == [kind |-> "nonjson", items |-> <<>>]
\* valid JSON that is not an array: an object, a number, a string, null
DemoNotArray == [kind |-> "notArray", items |-> <<>>]

getSeedDemoEvents == <<Item(1, 1), Item(2, 7), Item(3, 30)>>

isE2EDemoMode == mode = "demo"
isSupabaseConfigured == mode = "configured"

ok(data) == [tag |-> "ok", error |-> "none", data |-> data]
err(error) == [tag |-> "err", error |-> error, data |-> <<>>]
\* the promise of the async function is rejected
Rejected(error) == [tag |-> "throw", error |-> error, data |-> <<>>]

\* [threw, val, raw]: val is what getDemoEvents returns, raw the key afterwards
getDemoEvents(raw, full) ==
    IF raw.kind \in {"absent", "nonjson"}
    THEN IF full THEN [threw |-> TRUE, val |-> raw, raw |-> raw]
         ELSE [threw |-> FALSE, val |-> DemoArr(getSeedDemoEvents),
               raw |-> DemoArr(getSeedDemoEvents)]
    ELSE [threw |-> FALSE, val |-> raw, raw |-> raw]

\* [threw, raw]
saveDemoEvents(items, raw, full) ==
    IF full THEN [threw |-> TRUE, raw |-> raw] ELSE [threw |-> FALSE, raw |-> DemoArr(items)]

RECURSIVE Insert(_, _)
Insert(sorted, item) ==
    IF sorted = <<>> THEN <<item>>
    ELSE IF item.start < sorted[1].start THEN <<item>> \o sorted
    ELSE <<sorted[1]>> \o Insert(Tail(sorted), item)

RECURSIVE SortByStart(_)
\* Array.prototype.sort by start_date ascending (stable)
SortByStart(items) ==
    IF items = <<>> THEN <<>>
    ELSE Insert(SortByStart(SubSeq(items, 1, Len(items) - 1)), items[Len(items)])

\* new Date(e.start_date) >= now
Upcoming(items) == SelectSeq(items, LAMBDA e : e.start >= 0)

FindIndex(items, id) ==
    IF \E i \in 1..Len(items) : items[i].id = id
    THEN CHOOSE i \in 1..Len(items) :
            items[i].id = id /\ \A j \in 1..(i - 1) : items[j].id # id
    ELSE 0

Unconfigured == err("DatabaseError")

\* the body of a list query's try block
ListQuery(response, rows) ==
    IF response = "throw" THEN err("DatabaseError")
    ELSE IF response \in {"error", "PGRST116", "23505"} THEN err("DatabaseError")
    ELSE IF response = "null" THEN ok(<<>>)
    ELSE ok(rows)

\* the body of a .single() query's try block
SingleQuery(response, rows) ==
    IF response = "throw" THEN err("DatabaseError")
    ELSE IF response = "PGRST116" THEN err("NotFoundError")
    ELSE IF response = "error" THEN err("DatabaseError")
    ELSE IF response = "null" \/ rows = <<>> THEN err("NotFoundError")
    ELSE ok(<<rows[1]>>)

\* Each operation: [result, raw] - what the call resolves to and the demo key
\* after it.
getEvents(raw, full, response, rows) ==
    IF isE2EDemoMode
    THEN LET d == getDemoEvents(raw, full)
         IN  IF d.threw THEN [result |-> Rejected("QuotaExceededError"), raw |-> raw]
             ELSE IF d.val.kind # "array" THEN [result |-> Rejected("TypeError"), raw |-> d.raw]
             ELSE [result |-> ok(SortByStart(Upcoming(d.val.items))), raw |-> d.raw]
    ELSE IF ~isSupabaseConfigured THEN [result |-> Unconfigured, raw |-> raw]
    ELSE [result |-> ListQuery(response, rows), raw |-> raw]

getEventById(id, raw, full, response, rows) ==
    IF id = NoEvent THEN [result |-> err("ValidationError"), raw |-> raw]
    ELSE IF isE2EDemoMode
    THEN LET d == getDemoEvents(raw, full)
         IN  IF d.threw THEN [result |-> Rejected("QuotaExceededError"), raw |-> raw]
             ELSE IF d.val.kind # "array" THEN [result |-> Rejected("TypeError"), raw |-> d.raw]
             ELSE IF FindIndex(d.val.items, id) = 0
                  THEN [result |-> err("NotFoundError"), raw |-> d.raw]
                  ELSE [result |-> ok(<<d.val.items[FindIndex(d.val.items, id)]>>), raw |-> d.raw]
    ELSE IF ~isSupabaseConfigured THEN [result |-> Unconfigured, raw |-> raw]
    ELSE \* rows: the table; .eq('id', id) selects from it
         [result |-> SingleQuery(response, SelectSeq(rows, LAMBDA e : e.id = id)), raw |-> raw]

getEventsByIds(ids, raw, full, response, rows) ==
    IF Len(ids) = 0 THEN [result |-> ok(<<>>), raw |-> raw]
    ELSE IF isE2EDemoMode
    THEN LET d == getDemoEvents(raw, full)
         IN  IF d.threw THEN [result |-> Rejected("QuotaExceededError"), raw |-> raw]
             ELSE IF d.val.kind # "array" THEN [result |-> Rejected("TypeError"), raw |-> d.raw]
             ELSE [result |-> ok(SortByStart(SelectSeq(d.val.items,
                                                       LAMBDA e : e.id \in Range(ids)))),
                   raw |-> d.raw]
    ELSE IF ~isSupabaseConfigured THEN [result |-> Unconfigured, raw |-> raw]
    ELSE \* rows: the table; .in('id', ids) and .order('start_date') select from it
         [result |-> ListQuery(response,
                               SortByStart(SelectSeq(rows, LAMBDA e : e.id \in Range(ids)))),
          raw |-> raw]

getAllEvents(raw, full, response, rows) ==
    IF isE2EDemoMode
    THEN LET d == getDemoEvents(raw, full)
         IN  IF d.threw THEN [result |-> Rejected("QuotaExceededError"), raw |-> raw]
             ELSE IF d.val.kind # "array" THEN [result |-> Rejected("TypeError"), raw |-> d.raw]
             ELSE [result |-> ok(SortByStart(d.val.items)), raw |-> d.raw]
    ELSE IF ~isSupabaseConfigured THEN [result |-> Unconfigured, raw |-> raw]
    ELSE [result |-> ListQuery(response, rows), raw |-> raw]

\* newId: what generateDemoUUID returns; event: the input
createEvent(newId, event, raw, full, response, rows) ==
    IF isE2EDemoMode
    THEN LET d == getDemoEvents(raw, full)
         IN  IF d.threw THEN [result |-> Rejected("QuotaExceededError"), raw |-> raw]
             ELSE IF d.val.kind # "array" THEN [result |-> Rejected("TypeError"), raw |-> d.raw]
             ELSE LET newEvent == [id |-> newId, start |-> event.start, end |-> event.end]
                      s == saveDemoEvents(Append(d.val.items, newEvent), d.raw, full)
                  IN  IF s.threw THEN [result |-> Rejected("QuotaExceededError"), raw |-> s.raw]
                      ELSE [result |-> ok(<<newEvent>>), raw |-> s.raw]
    ELSE IF ~isSupabaseConfigured THEN [result |-> Unconfigured, raw |-> raw]
    ELSE [result |-> IF response = "throw" THEN err("DatabaseError")
                     ELSE IF response = "23505" THEN err("ValidationError")
                     ELSE IF response = "error" THEN err("DatabaseError")
                     ELSE IF response = "null" \/ rows = <<>> THEN err("DatabaseError")
                     ELSE ok(<<rows[1]>>),
          raw |-> raw]

\* { ...events[index], ...event }: the fields the partial input has replace
\* the stored ones
Merge(item, patch) ==
    [id |-> item.id,
     start |-> IF patch.has THEN patch.start ELSE item.start,
     end |-> IF patch.hasEnd THEN patch.end ELSE item.end]

\* patch: the partial input; it has a start_date, an end_date (which may be
\* null), both or neither
updateEvent(id, patch, raw, full, response, rows) ==
    IF id = NoEvent THEN [result |-> err("ValidationError"), raw |-> raw]
    ELSE IF isE2EDemoMode
    THEN LET d == getDemoEvents(raw, full)
         IN  IF d.threw THEN [result |-> Rejected("QuotaExceededError"), raw |-> raw]
             ELSE IF d.val.kind # "array" THEN [result |-> Rejected("TypeError"), raw |-> d.raw]
             ELSE LET index == FindIndex(d.val.items, id)
                  IN  IF index = 0 THEN [result |-> err("NotFoundError"), raw |-> d.raw]
                      ELSE LET updatedEvent == Merge(d.val.items[index], patch)
                               s == saveDemoEvents([d.val.items EXCEPT ![index] = updatedEvent],
                                                   d.raw, full)
                           IN  IF s.threw
                               THEN [result |-> Rejected("QuotaExceededError"), raw |-> s.raw]
                               ELSE [result |-> ok(<<updatedEvent>>), raw |-> s.raw]
    ELSE IF ~isSupabaseConfigured THEN [result |-> Unconfigured, raw |-> raw]
    ELSE \* rows: the table; .eq('id', id) selects from it
         [result |-> SingleQuery(response, SelectSeq(rows, LAMBDA e : e.id = id)), raw |-> raw]

\* deleteEvent with the splice at the head of the list
deleteEvent_SplicesHead(id, raw, full, response, response2) ==
    IF id = NoEvent THEN [result |-> err("ValidationError"), raw |-> raw]
    ELSE IF isE2EDemoMode
    THEN LET d == getDemoEvents(raw, full)
         IN  IF d.threw THEN [result |-> Rejected("QuotaExceededError"), raw |-> raw]
             ELSE IF d.val.kind # "array" THEN [result |-> Rejected("TypeError"), raw |-> d.raw]
             ELSE LET index == FindIndex(d.val.items, id)
                  IN  IF index = 0 THEN [result |-> err("NotFoundError"), raw |-> d.raw]
                      ELSE LET s == saveDemoEvents(RemoveAt(d.val.items, 1), d.raw, full)
                           IN  IF s.threw
                               THEN [result |-> Rejected("QuotaExceededError"), raw |-> s.raw]
                               ELSE [result |-> ok(<<>>), raw |-> s.raw]
    ELSE IF ~isSupabaseConfigured THEN [result |-> Unconfigured, raw |-> raw]
    ELSE [result |-> IF response = "throw" THEN err("DatabaseError")
                     ELSE IF response # "data" THEN err("NotFoundError")
                     ELSE IF response2 = "throw" THEN err("DatabaseError")
                     ELSE IF response2 = "error" THEN err("DatabaseError")
                     ELSE ok(<<>>),
          raw |-> raw]

\* response: the answer to the existence query; response2: to the delete
deleteEvent(id, raw, full, response, response2) ==
    IF id = NoEvent THEN [result |-> err("ValidationError"), raw |-> raw]
    ELSE IF isE2EDemoMode
    THEN LET d == getDemoEvents(raw, full)
         IN  IF d.threw THEN [result |-> Rejected("QuotaExceededError"), raw |-> raw]
             ELSE IF d.val.kind # "array" THEN [result |-> Rejected("TypeError"), raw |-> d.raw]
             ELSE LET index == FindIndex(d.val.items, id)
                  IN  IF index = 0 THEN [result |-> err("NotFoundError"), raw |-> d.raw]
                      ELSE LET s == saveDemoEvents(RemoveAt(d.val.items, index), d.raw, full)
                           IN  IF s.threw
                               THEN [result |-> Rejected("QuotaExceededError"), raw |-> s.raw]
                               ELSE [result |-> ok(<<>>), raw |-> s.raw]
    ELSE IF ~isSupabaseConfigured THEN [result |-> Unconfigured, raw |-> raw]
    ELSE [result |-> IF response = "throw" THEN err("DatabaseError")
                     ELSE IF response # "data" THEN err("NotFoundError")
                     ELSE IF response2 = "throw" THEN err("DatabaseError")
                     ELSE IF response2 = "error" THEN err("DatabaseError")
                     ELSE ok(<<>>),
          raw |-> raw]

\* What the backend can answer to a query: data with rows, no data, an error
\* (with the two codes the code tells apart), or a failure of the request.
Answer(response, rows) == [response |-> response, rows |-> rows]
Answers ==
    {Answer(response, <<>>) : response \in {"data", "null", "error", "PGRST116", "23505", "throw"}}
        \cup {Answer("data", <<Item(1, 1), Item(2, 7)>>)}
DeleteAnswers == {"data", "error", "throw"}
SourceIds == 0..(Len(getSeedDemoEvents) + MaxCreated)
IdLists == {<<>>, <<0>>, <<1>>, <<3, 1>>, <<1, 0>>}
Starts == {-1}
Patch(has, start, hasEnd, end) == [has |-> has, start |-> start, hasEnd |-> hasEnd, end |-> end]
Patches == {Patch(FALSE, 0, FALSE, NoEnd)} \cup {Patch(TRUE, s, FALSE, NoEnd) : s \in Starts}

\* A call of an Item Source operation, from its start to the settling of the
\* promise it returns.
Call(op, id, r) ==
    /\ result' = r.result
    /\ demoEvents' = r.raw
    /\ step' = Did(op, NoEvent, id, NoDirection, r.result.tag)
    /\ UNCHANGED mode
    /\ StoresUnchanged
    /\ StoreCallsUnchanged
    /\ DeckIdle

GetEvents(full, answer) ==
    /\ Call("getEvents", NoEvent, getEvents(demoEvents, full, answer.response, answer.rows))
    /\ UNCHANGED created

GetEventById(id, full, answer) ==
    /\ Call("getEventById", id, getEventById(id, demoEvents, full, answer.response, answer.rows))
    /\ UNCHANGED created

GetEventsByIds(ids, full, answer) ==
    /\ Call("getEventsByIds", NoEvent, getEventsByIds(ids, demoEvents, full, answer.response, answer.rows))
    /\ UNCHANGED created

GetAllEvents(full, answer) ==
    /\ Call("getAllEvents", NoEvent, getAllEvents(demoEvents, full, answer.response, answer.rows))
    /\ UNCHANGED created

CreateEvent(start, full, answer) ==
    /\ created < MaxCreated
    /\ LET newId == Len(getSeedDemoEvents) + created + 1
           r == createEvent(newId, Input(start, NoEnd), demoEvents, full,
                            answer.response, answer.rows)
       IN  /\ Call("createEvent", newId, r)
           /\ created' = IF isE2EDemoMode /\ r.result.tag = "ok" THEN created + 1 ELSE created

UpdateEvent(id, patch, full, answer) ==
    /\ Call("updateEvent", id, updateEvent(id, patch, demoEvents, full, answer.response, answer.rows))
    /\ UNCHANGED created

DeleteEvent(id, full, response, response2) ==
    /\ Call("deleteEvent", id, deleteEvent(id, demoEvents, full, response, response2))
    /\ UNCHANGED created

InitSource ==
    /\ events = <<>>
    /\ currentIndex = 0
    /\ exitDirection = NoDirection
    /\ saved = Absent
    /\ dismissed = Absent
    /\ isAnimating = FALSE
    /\ lastExitDirection = NoDirection
    /\ anim = NoDirection
    /\ stale = <<>>
    /\ selectedEvent = NoEvent
    /\ detailIsSaved = FALSE
    /\ passes = 0
    /\ step = Did("init", NoEvent, NoEvent, NoDirection, "ok")
    /\ swipeLog = <<>>
    /\ logging = FALSE
    /\ tracking = FALSE
    /\ shown = NoView
    /\ NoScreen
    /\ NoLimiter
    /\ returned = Undefined
    /\ trip = NoTrip
    /\ mode \in {"demo", "unconfigured", "configured"}
    /\ demoEvents \in {DemoAbsent, DemoNonJson, DemoNotArray, DemoArr(<<>>),
                       DemoArr(getSeedDemoEvents)}
    /\ created = 0
    /\ result = NoResult

NextSource ==
    \/ \E full \in BOOLEAN, answer \in Answers : GetEvents(full, answer)
    \/ \E id \in SourceIds, full \in BOOLEAN, answer \in Answers :
            GetEventById(id, full, answer)
    \/ \E ids \in IdLists, full \in BOOLEAN, answer \in Answers :
            GetEventsByIds(ids, full, answer)
    \/ \E full \in BOOLEAN, answer \in Answers : GetAllEvents(full, answer)
    \/ \E start \in Starts, full \in BOOLEAN, answer \in Answers :
            CreateEvent(start, full, answer)
    \/ \E id \in SourceIds, patch \in Patches, full \in BOOLEAN, answer \in Answers :
            UpdateEvent(id, patch, full, answer)
    \/ \E id \in SourceIds, full \in BOOLEAN, answer \in Answers,
          response2 \in DeleteAnswers :
            DeleteEvent(id, full, answer.response, response2)

SpecSource == InitSource /\ [][NextSource]_vars

\* ------------------------------------------------- validated writes
\* createEvent and updateEvent in demo mode, called with inputs that pass
\* CreateEventSchema and UpdateEventSchema, on a store whose items were
\* written that way.
MaxTime == 3
Times == 1..MaxTime
Ends == Times \cup {NoEnd}

\* validateEndDateAfterStart: data has start_date and end_date when the
\* input has them; a null end_date is falsy
validateEndDateAfterStart(data) ==
    ~(/\ data.hasEnd
      /\ data.end # NoEnd
      /\ data.has
      /\ data.end < data.start)

\* the date fields of CreateEventSchema: start_date is required, end_date is
\* nullable, and the refinement holds
CreateEventSchema(event) ==
    validateEndDateAfterStart(Patch(TRUE, event.start, TRUE, event.end))

\* the date fields of UpdateEventSchema: both optional, and the refinement
UpdateEventSchema(patch) == validateEndDateAfterStart(patch)

CreateInputs == {Input(start, end) : start \in Times, end \in Ends}
UpdateInputs ==
    {Patch(has, IF has THEN start ELSE 0, hasEnd, IF hasEnd THEN end ELSE NoEnd) :
        has \in BOOLEAN, start \in Times, hasEnd \in BOOLEAN, end \in Ends}

CreateValid(event, full) ==
    /\ CreateEventSchema(event)
    /\ created < MaxCreated
    /\ LET newId == Len(getSeedDemoEvents) + created + 1
           r == createEvent(newId, event, demoEvents, full, "data", <<>>)
       IN  /\ Call("createEvent", newId, r)
           /\ created' = IF r.result.tag = "ok" THEN created + 1 ELSE created

UpdateValid(id, patch, full) ==
    /\ UpdateEventSchema(patch)
    /\ UpdateEvent(id, patch, full, Answer("data", <<>>))

InitDates ==
    /\ events = <<>>
    /\ currentIndex = 0
    /\ exitDirection = NoDirection
    /\ saved = Absent
    /\ dismissed = Absent
    /\ isAnimating = FALSE
    /\ lastExitDirection = NoDirection
    /\ anim = NoDirection
    /\ stale = <<>>
    /\ selectedEvent = NoEvent
    /\ detailIsSaved = FALSE
    /\ passes = 0
    /\ step = Did("init", NoEvent, NoEvent, NoDirection, "ok")
    /\ swipeLog = <<>>
    /\ logging = FALSE
    /\ tracking = FALSE
    /\ shown = NoView
    /\ NoScreen
    /\ NoLimiter
    /\ returned = Undefined
    /\ trip = NoTrip
    /\ mode = "demo"
    /\ \E event \in CreateInputs :
          /\ CreateEventSchema(event)
          /\ demoEvents \in {DemoArr(<<>>),
                             DemoArr(<<[id |-> 1, start |-> event.start, end |-> event.end]>>)}
    /\ created = 0
    /\ result = NoResult

NextDates ==
    \/ \E event \in CreateInputs, full \in BOOLEAN : CreateValid(event, full)
    \/ \E id \in SourceIds, patch \in UpdateInputs, full \in BOOLEAN :
            UpdateValid(id, patch, full)

SpecDates == InitDates /\ [][NextDates]_vars

\* ------------------------------------------------- the screens' loads
\* The four screens that load from the Item Source when they mount: Home
\* (getEvents), the saved page (getEventsByIds of the saved ids), the event
\* page (getEventById) and the admin list (getAllEvents).  events is the
\* screen's reducer state beside loadingState: the ids it shows.
MaxRetries == 2
Pages == {"home", "saved", "event", "admin"}

\* An Item Source call a screen has started.  by: "effect" - started by the
\* useEffect body, whose closure holds the flag cancelled; "handler" - started
\* by the event page's handleRetry, which has no such flag.
Fetch(by, trigger, ids) ==
    [by |-> by, trigger |-> trigger, ids |-> ids, cancelled |-> FALSE, settled |-> FALSE]

IdsOfItems(data) == [i \in 1..Len(data) |-> data[i].id]

\* dispatch(action): the reducer applied to the screen's state
dispatch(type, data) ==
    /\ loadingState' = CASE type = "LOADING" -> "loading"
                         [] type = "SUCCESS" -> "success"
                         [] type = "NOT_FOUND" -> "not-found"
                         [] OTHER -> "error"
    /\ events' = CASE type = "SUCCESS" -> IdsOfItems(data)
                   [] type = "NOT_FOUND" -> <<>>
                   [] OTHER -> events

\* the effect's cleanup: cancelled = true in the closure of the last run
Cleanup_KeepsPending(fs) == fs

Cleanup(fs) ==
    [i \in DOMAIN fs |-> IF fs[i].by = "effect" THEN [fs[i] EXCEPT !.cancelled = TRUE]
                         ELSE fs[i]]

\* The body of the effect, after the cleanup of its last run: LOADING is
\* dispatched and the call is started.  The saved page reads the saved ids
\* first: when the read throws the async function is rejected with LOADING
\* dispatched, and with no saved ids SUCCESS follows at once with no call.
RunEffect(trigger, ids) ==
    IF page = "saved"
    THEN LET savedIds == getSavedEventIds(saved)
         IN  IF savedIds.threw
             THEN /\ dispatch("LOADING", <<>>)
                  /\ fetches' = Cleanup(fetches)
             ELSE IF Len(savedIds.val.ids) = 0
             THEN /\ dispatch("SUCCESS", <<>>)
                  /\ fetches' = Cleanup(fetches)
             ELSE /\ dispatch("LOADING", <<>>)
                  /\ fetches' = Append(Cleanup(fetches),
                                       Fetch("effect", trigger, savedIds.val.ids))
    ELSE /\ dispatch("LOADING", <<>>)
         /\ fetches' = Append(Cleanup(fetches), Fetch("effect", trigger, ids))

ScreenFrame ==
    /\ UNCHANGED <<currentIndex, exitDirection, passes, tracking, shown, created>>
    /\ UNCHANGED <<selectedEvent, detailIsSaved, mode, page>>
    /\ StoresUnchanged
    /\ HistoryUnchanged
    /\ CardUnchanged
    /\ StoreCallsUnchanged
    /\ LimiterIdle

\* The screen mounts: the first render and the first run of the effect.
\* id: the event page's params.id.
Mount(id) ==
    /\ ~mounted
    /\ step.op = "init"
    /\ mounted' = TRUE
    /\ RunEffect("mount", IF page = "event" THEN <<id>> ELSE <<>>)
    /\ step' = Did("mount", NoEvent, Len(fetches'), NoDirection, loadingState')
    /\ UNCHANGED <<retryCount, modal, demoEvents, result>>
    /\ ScreenFrame

\* Try Again, rendered in the error state.  Home, the saved page and the
\* admin list count retryCount up, which runs the effect again; the event
\* page dispatches LOADING and calls getEventById itself.
handleRetry ==
    /\ mounted
    /\ loadingState = "error"
    /\ retryCount < MaxRetries
    /\ Len(fetches) <= MaxRetries
    /\ IF page = "event"
       THEN /\ dispatch("LOADING", <<>>)
            /\ fetches' = Append(fetches, Fetch("handler", "retry", fetches[1].ids))
            /\ UNCHANGED retryCount
       ELSE /\ retryCount' = retryCount + 1
            /\ RunEffect("retry", <<>>)
    /\ step' = Did("handleRetry", NoEvent, Len(fetches'), NoDirection, loadingState')
    /\ UNCHANGED <<mounted, modal, demoEvents, result>>
    /\ ScreenFrame

\* The saved page: a tap on a listed event opens EventDetail.
handleEventTap ==
    /\ mounted
    /\ page = "saved"
    /\ loadingState = "success"
    /\ events # <<>>
    /\ modal = "none"
    /\ modal' = "open"
    /\ step' = Did("handleEventTap", NoEvent, events[1], NoDirection, "ok")
    /\ UNCHANGED <<mounted, loadingState, events, retryCount, fetches, demoEvents, result>>
    /\ ScreenFrame

\* The saved page: EventDetail's close button.  selectedEvent becomes null
\* and handleRetry runs; the modal stays on screen, and its button with it,
\* until its exit animation is over.
handleCloseDetail ==
    /\ mounted
    /\ page = "saved"
    /\ modal \in {"open", "exiting"}
    /\ retryCount < MaxRetries
    /\ modal' = "exiting"
    /\ retryCount' = retryCount + 1
    /\ RunEffect("closeDetail", <<>>)
    /\ step' = Did("handleCloseDetail", NoEvent, Len(fetches'), NoDirection, loadingState')
    /\ UNCHANGED <<mounted, demoEvents, result>>
    /\ ScreenFrame

ExitComplete ==
    /\ modal = "exiting"
    /\ modal' = "none"
    /\ step' = Did("exitComplete", NoEvent, NoEvent, NoDirection, "ok")
    /\ UNCHANGED <<mounted, loadingState, events, retryCount, fetches, demoEvents, result>>
    /\ ScreenFrame

\* Navigating away: the component unmounts and the effect's cleanup runs.
Unmount ==
    /\ mounted
    /\ mounted' = FALSE
    /\ fetches' = Cleanup(fetches)
    /\ modal' = "none"
    /\ step' = Did("unmount", NoEvent, NoEvent, NoDirection, "ok")
    /\ UNCHANGED <<loadingState, events, retryCount, demoEvents, result>>
    /\ ScreenFrame

\* the Item Source call of the screen
PageCall(f, full, answer) ==
    CASE page = "home" -> getEvents(demoEvents, full, answer.response, answer.rows)
      [] page = "saved" -> getEventsByIds(f.ids, demoEvents, full, answer.response, answer.rows)
      [] page = "event" -> getEventById(f.ids[1], demoEvents, full, answer.response, answer.rows)
      [] OTHER -> getAllEvents(demoEvents, full, answer.response, answer.rows)

\* what the code after the await does with the settled call: nothing when
\* the promise is rejected (nothing catches it), nothing when the effect's
\* closure has cancelled set, and a dispatch otherwise
Applies(f, r) ==
    /\ r.tag # "throw"
    /\ ~(f.by = "effect" /\ f.cancelled)

\* The i-th call settles and the code after its await runs.
Resolve(i, full, answer) ==
    /\ i \in DOMAIN fetches
    /\ ~fetches[i].settled
    /\ LET r == PageCall(fetches[i], full, answer)
       IN  /\ result' = r.result
           /\ demoEvents' = r.raw
           /\ IF Applies(fetches[i], r.result)
              THEN /\ IF r.result.tag = "ok" THEN dispatch("SUCCESS", r.result.data)
                      ELSE IF page = "event" /\ r.result.error = "NotFoundError"
                      THEN dispatch("NOT_FOUND", <<>>)
                      ELSE dispatch("ERROR", <<>>)
                   /\ step' = Did("resolve", NoEvent, i, NoDirection, "applied")
              ELSE /\ UNCHANGED <<loadingState, events>>
                   /\ step' = Did("resolve", NoEvent, i, NoDirection,
                                  IF r.result.tag = "throw" THEN "rejected" ELSE "dropped")
    /\ fetches' = [fetches EXCEPT ![i].settled = TRUE]
    /\ UNCHANGED <<mounted, retryCount, modal>>
    /\ ScreenFrame

\* A screen before it mounts, over what the environment and the two storage
\* keys it reads can hold.
InitScreen ==
    /\ events = <<>>
    /\ currentIndex = 0
    /\ exitDirection = NoDirection
    /\ saved \in {Absent, Arr(<<1>>), Arr(<<3, 1>>), NonJson}
    /\ dismissed = Absent
    /\ isAnimating = FALSE
    /\ lastExitDirection = NoDirection
    /\ anim = NoDirection
    /\ stale = <<>>
    /\ selectedEvent = NoEvent
    /\ detailIsSaved = FALSE
    /\ passes = 0
    /\ step = Did("init", NoEvent, NoEvent, NoDirection, "ok")
    /\ swipeLog = <<>>
    /\ logging = FALSE
    /\ tracking = FALSE
    /\ shown = NoView
    /\ returned = Undefined
    /\ trip = NoTrip
    /\ mode \in {"demo", "unconfigured", "configured"}
    /\ demoEvents \in {DemoAbsent, DemoNotArray, DemoArr(getSeedDemoEvents)}
    /\ created = 0
    /\ result = NoResult
    /\ page \in Pages
    /\ page = "saved" \/ saved = Absent
    /\ mounted = FALSE
    /\ loadingState = "loading"
    /\ retryCount = 0
    /\ fetches = <<>>
    /\ modal = "none"
    /\ NoLimiter

NextScreen ==
    \/ \E id \in {1, 4} : Mount(id)
    \/ handleRetry
    \/ handleEventTap
    \/ handleCloseDetail
    \/ ExitComplete
    \/ Unmount
    \/ \E i \in 1..(MaxRetries + 1), full \in BOOLEAN, answer \in Answers :
            Resolve(i, full, answer)

SpecScreen == InitScreen /\ [][NextScreen]_vars

\* ------------------------------------------------- the rate limiter
\* middleware.ts: the in-memory counter per client key, the clock it reads
\* and the interval that deletes expired records.
RATE_LIMIT_WINDOW == 60000
MAX_REQUESTS_PER_WINDOW == 100
MaxWindows == 1
MaxServed == 3

\* the clients, by the key getRateLimitKey gives them
Clients == {1, 2}
\* the instants at which something happens: the start and the end of a
\* window, and the millisecond after each
Instants == {k * RATE_LIMIT_WINDOW + j : k \in 0..MaxWindows, j \in 0..1}

Paths == {"/admin/events", "/admin/<script", "/saved"}
Methods == {"GET", "POST"}
Request(key, pathname, method) == [key |-> key, pathname |-> pathname, method |-> method]

\* rateLimitStore.get(key) of a key the map does not hold
NoRecord == [count |-> 0, resetTime |-> 0]
Record(count, resetTime) == [count |-> count, resetTime |-> resetTime]

\* checkRateLimit with the test of the count off by one
checkRateLimit_OffByOne(key) ==
    LET record == rateLimitStore[key]
    IN  IF record = NoRecord \/ now > record.resetTime
        THEN [allowed |-> TRUE, remaining |-> MAX_REQUESTS_PER_WINDOW - 1,
              store |-> [rateLimitStore EXCEPT ![key] = Record(1, now + RATE_LIMIT_WINDOW)]]
        ELSE IF record.count > MAX_REQUESTS_PER_WINDOW
        THEN [allowed |-> FALSE, remaining |-> 0, store |-> rateLimitStore]
        ELSE [allowed |-> TRUE, remaining |-> MAX_REQUESTS_PER_WINDOW - (record.count + 1),
              store |-> [rateLimitStore EXCEPT ![key].count = record.count + 1]]

\* [allowed, remaining, store]: what checkRateLimit returns and the map after
checkRateLimit(key) ==
    LET record == rateLimitStore[key]
    IN  IF record = NoRecord \/ now > record.resetTime
        THEN [allowed |-> TRUE, remaining |-> MAX_REQUESTS_PER_WINDOW - 1,
              store |-> [rateLimitStore EXCEPT ![key] = Record(1, now + RATE_LIMIT_WINDOW)]]
        ELSE IF record.count >= MAX_REQUESTS_PER_WINDOW
        THEN [allowed |-> FALSE, remaining |-> 0, store |-> rateLimitStore]
        ELSE [allowed |-> TRUE, remaining |-> MAX_REQUESTS_PER_WINDOW - (record.count + 1),
              store |-> [rateLimitStore EXCEPT ![key].count = record.count + 1]]

Limited(request) == request.pathname \in {"/admin/events", "/admin/<script"} /\ request.method # "GET"
Suspicious(request) == request.pathname = "/admin/<script"

\* The history of a client: the instant of the admitted request that opened
\* its window, the requests admitted in the window so far, and the limited
\* requests the client has made in this run.
Admit(window, allowed) ==
    IF ~allowed THEN [window EXCEPT !.seen = window.seen + 1]
    ELSE IF window.n = 0 \/ now > window.open + RATE_LIMIT_WINDOW
    THEN [open |-> now, n |-> 1, seen |-> window.seen + 1]
    ELSE [window EXCEPT !.n = window.n + 1, !.seen = window.seen + 1]

LimiterFrame ==
    /\ UNCHANGED <<events, currentIndex, exitDirection, passes, tracking, shown>>
    /\ UNCHANGED <<selectedEvent, detailIsSaved>>
    /\ StoresUnchanged
    /\ HistoryUnchanged
    /\ CardUnchanged
    /\ ApiUnchanged
    /\ ScreenIdle

\* middleware(request): the status of the response
middleware(request) ==
    /\ Limited(request) => admitted[request.key].seen < MaxServed
    /\ IF Limited(request)
       THEN LET r == checkRateLimit(request.key)
            IN  /\ rateLimitStore' = r.store
                /\ admitted' = [admitted EXCEPT ![request.key] = Admit(@, r.allowed)]
                /\ step' = Did("middleware", NoEvent, request.key, NoDirection,
                               IF ~r.allowed THEN "429"
                               ELSE IF Suspicious(request) THEN "400" ELSE "next")
       ELSE /\ UNCHANGED <<rateLimitStore, admitted>>
            /\ step' = Did("pass", NoEvent, request.key, NoDirection,
                           IF Suspicious(request) THEN "400" ELSE "next")
    /\ UNCHANGED now
    /\ LimiterFrame

\* the callback of setInterval: expired records are deleted
CleanUp ==
    /\ rateLimitStore' = [key \in Clients |->
                            IF now > rateLimitStore[key].resetTime THEN NoRecord
                            ELSE rateLimitStore[key]]
    /\ step' = Did("cleanUp", NoEvent, NoEvent, NoDirection, "ok")
    /\ UNCHANGED <<now, admitted>>
    /\ LimiterFrame

\* Date.now() moves on
Tick(t) ==
    /\ t > now
    /\ now' = t
    /\ step' = Did("tick", NoEvent, NoEvent, NoDirection, "ok")
    /\ UNCHANGED <<rateLimitStore, admitted>>
    /\ LimiterFrame

\* The middleware at instant 0: a client has made no request yet, or its
\* window was opened at this instant and MAX_REQUESTS_PER_WINDOW - 1
\* requests of it were let through.
InitLimiter ==
    /\ events = <<>>
    /\ currentIndex = 0
    /\ exitDirection = NoDirection
    /\ saved = Absent
    /\ dismissed = Absent
    /\ isAnimating = FALSE
    /\ lastExitDirection = NoDirection
    /\ anim = NoDirection
    /\ stale = <<>>
    /\ selectedEvent = NoEvent
    /\ detailIsSaved = FALSE
    /\ passes = 0
    /\ step = Did("init", NoEvent, NoEvent, NoDirection, "ok")
    /\ swipeLog = <<>>
    /\ ApiIdle
    /\ logging = FALSE
    /\ tracking = FALSE
    /\ shown = NoView
    /\ NoScreen
    /\ now = 0
    /\ \E busy \in SUBSET Clients :
          /\ rateLimitStore =
                [key \in Clients |->
                    IF key \in busy
                    THEN Record(MAX_REQUESTS_PER_WINDOW - 1, RATE_LIMIT_WINDOW)
                    ELSE NoRecord]
          /\ admitted =
                [key \in Clients |->
                    [open |-> 0,
                     n |-> IF key \in busy THEN MAX_REQUESTS_PER_WINDOW - 1 ELSE 0,
                     seen |-> 0]]

NextLimiter ==
    \/ \E key \in Clients, pathname \in Paths, method \in Methods :
            middleware(Request(key, pathname, method))
    \/ CleanUp
    \/ \E t \in Instants : Tick(t)

SpecLimiter == InitLimiter /\ [][NextLimiter]_vars

\* ------------------------------------------------------------ the claims
Members(raw) == IF raw.kind = "array" THEN Range(raw.ids) ELSE {}
Count(raw, id) == Cardinality({i \in 1..Len(raw.ids) : raw.ids[i] = id})
\* contains(set, id) as the code computes it (isEventSaved)
Contains(raw, id) == LET r == isEventSaved(raw, id) IN ~r.threw /\ r.val
DeckUnchanged ==
    UNCHANGED <<currentIndex, exitDirection, saved, dismissed, isAnimating,
                lastExitDirection, anim, stale>>

\* C1: while a button/keyboard exit of the top card is in flight (its
\* animation runs and its completion has not been reported), a further commit
\* trigger for that card - a button, a key, or a drag released beyond the
\* threshold - writes nothing to either store and does not move the cursor.
C1_TriggerInFlightIsNoOp ==
    [][(anim # NoDirection /\ exitDirection # NoDirection
            /\ step'.op \in {"drag", "button"})
        => (saved' = saved /\ dismissed' = dismissed /\ currentIndex' = currentIndex)]_vars

\* a drag released while the Save exit of card 1 was running has dismissed it
C1_Witness ==
    /\ step = Did("drag", 1, 1, "left", "commit")
    /\ Len(stale) = 1
    /\ stale[1].dir = "right"
    /\ dismissed = Arr(<<1>>)
    /\ currentIndex = 1

\* C2: whenever the cursor advances past an item, the decision for that item
\* is already in the store of its direction; a commit whose store write fails
\* leaves the cursor where it was.
C2_RecordedBeforeAdvance ==
    [][(currentIndex' > currentIndex)
        => /\ hasMoreEvents
           /\ Contains(IF step'.dir = "right" THEN saved' ELSE dismissed',
                       events[currentIndex + 1])]_vars

C2_Witness ==
    /\ step.outcome = "commit"
    /\ step.op = "animation"
    /\ step.dir = "right"
    /\ currentIndex = 2
    /\ Contains(saved, events[2])

\* C3: the completion callback of an exit commits the card that entered
\* Exiting, so that each entry gives exactly one commit of that card: no
\* completion callback commits another card.
C3_ExitCommitsItsOwnCard ==
    [][(tracking /\ step'.op \in {"drag", "animation", "staleAnimation"}
            /\ step'.outcome = "commit")
        => step'.id = step'.card]_vars

\* the exit animation of card 1, overtaken by a drag, has committed card 2
C3_Witness ==
    /\ tracking
    /\ step = Did("staleAnimation", 1, 2, "right", "commit")
    /\ saved = Arr(<<2>>)
    /\ dismissed = Arr(<<1>>)
    /\ currentIndex = 2

\* C4: a button or arrow key activated while the exit animation of an earlier
\* activation is running is ignored (nothing of the deck changes, the exit
\* direction stays), and the animation's completion then swipes one event,
\* in the direction of the first activation.
C4_SecondActivationIgnored ==
    [][/\ (step'.op = "button" /\ exitDirection # NoDirection)
            => (step'.outcome = "ignored" /\ DeckUnchanged)
       /\ (step'.op = "animation" /\ step'.outcome = "commit")
            => (step'.dir = exitDirection /\ currentIndex' = currentIndex + 1)]_vars

C4_Witness ==
    /\ step.op = "button"
    /\ step.outcome = "ignored"
    /\ anim # NoDirection
    /\ step.dir # anim
    /\ exitDirection = anim

\* C5: a read (all, contains) of a set whose storage key holds malformed
\* data - text that is not JSON, or JSON that is not an array of ids -
\* behaves as on the empty set: getSavedEventIds and getDismissedEventIds
\* return [], isEventSaved returns false, and none of them throws.
C5_MalformedReadsAsEmpty ==
    /\ (step.op = "getSavedEventIds" /\ saved \in Malformed)
            => returned = Returned(Arr(<<>>))
    /\ (step.op = "getDismissedEventIds" /\ dismissed \in Malformed)
            => returned = Returned(Arr(<<>>))
    /\ (step.op = "isEventSaved" /\ saved \in Malformed)
            => returned = Returned(FALSE)

\* the read of a key that holds text that is not JSON has thrown
C5_Witness ==
    /\ step.op = "getSavedEventIds"
    /\ saved = NonJson
    /\ returned = Threw

\* C6: every Item Source operation completes with a tagged success or
\* failure value and never throws or rejects, whatever the backend answers,
\* the configuration, and the contents of the demo-mode storage key.
C6_NeverRejects ==
    step.op \in {"getEvents", "getAllEvents", "getEventById", "getEventsByIds",
                 "createEvent", "updateEvent", "deleteEvent"}
        => result.tag \in {"ok", "err"}

\* getEvents in demo mode on a key that holds JSON that is not an array
C6_Witness ==
    /\ step.op = "getEvents"
    /\ mode = "demo"
    /\ demoEvents = DemoNotArray
    /\ result = Rejected("TypeError")

IdsIn(raw) == getSavedEventIds(raw).val.ids

C8_CommitRecordsItemAtCursor ==
    [][/\ (step'.outcome = "commit")
            => /\ hasMoreEvents
               /\ step'.id = events[currentIndex + 1]
               /\ currentIndex' = currentIndex + 1
               /\ IF step'.dir = "right"
                  THEN /\ Members(saved') = Members(saved) \cup {step'.id}
                       /\ Count(saved', step'.id) = 1
                       /\ dismissed' = dismissed
                  ELSE /\ Members(dismissed') = Members(dismissed) \cup {step'.id}
                       /\ Count(dismissed', step'.id) = 1
                       /\ saved' = saved
               /\ (Len(events) = 3 /\ currentIndex = 0 /\ step'.dir = "right" /\ saved = Absent)
                    => /\ saved' = Arr(<<events[1]>>)
                       /\ currentIndex' = 1
                       /\ visibleEvents' = <<events[2], events[3]>>
       /\ (step'.op = "drag" /\ step'.dir # NoDirection /\ exitDirection = NoDirection)
            => step'.outcome \in {"commit", "throw"}
       /\ (step'.outcome = "throw")
            => (saved' = saved /\ dismissed' = dismissed /\ currentIndex' = currentIndex)]_vars

C8_Witness ==
    /\ Len(events) = 3
    /\ step = Did("drag", 1, 1, "right", "commit")
    /\ saved = Arr(<<1>>)
    /\ dismissed = Absent
    /\ currentIndex = 1
    /\ visibleEvents = <<2, 3>>

\* C9: between resets (and page loads) the cursor never decreases; it grows
\* by exactly one in a step that commits and stays in every other step.
C9_CursorAdvancesByOne ==
    [][(step'.op \notin {"reset", "reload"})
        => IF step'.outcome = "commit"
           THEN currentIndex' = currentIndex + 1
           ELSE currentIndex' = currentIndex]_vars

C9_Witness ==
    /\ passes = 0
    /\ step.outcome = "commit"
    /\ currentIndex = Len(events)
    /\ Len(events) = 3

RECURSIVE IdsOf(_, _)
\* the ids of the logged swipes of one direction, in the order they completed
IdsOf(log, direction) ==
    IF log = <<>> THEN <<>>
    ELSE IF log[1][2] = direction THEN <<log[1][1]>> \o IdsOf(Tail(log), direction)
    ELSE IdsOf(Tail(log), direction)

\* C10: on storage that starts empty, while the completed swipes are on
\* distinct items, the saved list is the ids swiped right in the order those
\* swipes completed, and the dismissed list the ids swiped left likewise.
C10_ListsInCompletionOrder ==
    logging =>
        /\ getSavedEventIds(saved).val.ids = IdsOf(swipeLog, "right")
        /\ getDismissedEventIds(dismissed).val.ids = IdsOf(swipeLog, "left")

C10_Witness ==
    /\ logging
    /\ swipeLog = << <<1, "right">>, <<2, "left">>, <<3, "right">> >>
    /\ saved = Arr(<<1, 3>>)
    /\ dismissed = Arr(<<2>>)

\* C11: a drag released with an offset at or below the threshold in size
\* (80px, exactly 100px, exactly -100px) snaps back: no decision is recorded
\* in either set, the cursor and the card's exit state stay as they were, and
\* a card that was idle is idle again.  (A drag step carries the direction its
\* release offset maps to.)
C11_ReleaseWithinThresholdSnapsBack ==
    [][step'.op = "drag"
        => \A offset \in Offsets :
            (/\ offset <= 100
             /\ offset >= -100
             /\ step'.dir = swipeDirection(offset))
            => /\ step'.outcome = "snapBack"
               /\ DeckUnchanged
               /\ (anim = NoDirection /\ exitDirection = NoDirection)
                    => (anim' = NoDirection /\ exitDirection' = NoDirection
                        /\ stale' = stale)]_vars

\* card 2 was dragged and released within the threshold after card 1 was saved
C11_Witness ==
    /\ step = Did("drag", 2, NoEvent, NoDirection, "snapBack")
    /\ currentIndex = 1
    /\ saved = Arr(<<1>>)
    /\ dismissed = Absent
    /\ anim = NoDirection
    /\ exitDirection = NoDirection
    /\ {-100, 80, 100} \subseteq Offsets

\* C12: the Pass button of the detail modal opened from the deck closes the
\* modal, adds the shown event's id to the dismissed set and advances the deck
\* to the next card.
C12_DetailPassDismissesAndAdvances ==
    [][DetailClose("detailPass")
        => /\ selectedEvent' = NoEvent
           /\ selectedEvent \in Members(dismissed')
           /\ currentIndex' = currentIndex + 1]_vars

\* Pass was pressed in the modal of card 1: the modal is closed, card 1 is still
\* the top card and nothing was dismissed
C12_Witness ==
    /\ step = Did("detailPass", NoEvent, 1, NoDirection, "closed")
    /\ selectedEvent = NoEvent
    /\ currentIndex = 0
    /\ currentEvent = 1
    /\ dismissed = Absent

C14_ResetRewindsAndKeepsStores ==
    [][handleReset
        => /\ currentIndex' = 0
           /\ saved' = saved
           /\ dismissed' = dismissed
           /\ Len(events) > 0
                => /\ render'.view = "stack"
                   /\ render'.cards[1] = events[1]]_vars

\* Start Over was pressed after 2 was saved and 1 was passed, and the deck was
\* rendered again
C14_Witness ==
    /\ step = Did("render", 2, NoEvent, NoDirection, "stack")
    /\ passes = 1
    /\ events = <<2, 1>>
    /\ currentIndex = 0
    /\ saved = Arr(<<2>>)
    /\ dismissed = Arr(<<1>>)
    /\ shown = View("stack", <<2, 1>>)

C16_CommitWhenExhaustedIsNoOp ==
    [][(/\ currentIndex >= Len(events)
        /\ step'.op \in {"drag", "button", "animation", "staleAnimation"})
        => /\ step'.outcome \in {"noEvent", "ignored"}
           /\ currentIndex' = currentIndex
           /\ saved' = saved
           /\ dismissed' = dismissed]_vars

\* the last card was dragged away while its button exit was running; when
\* that exit completed it found no event at the cursor
C16_Witness ==
    /\ step = Did("staleAnimation", NoEvent, NoEvent, "right", "noEvent")
    /\ Len(events) = 2
    /\ currentIndex = 2
    /\ saved = Absent
    /\ dismissed = Arr(<<1, 2>>)

\* what two calls of an add in a row leave, against what one call leaves
AddedOnce(list, raw, id) ==
    \A full \in BOOLEAN :
        LET add(r, eventId, f) == IF list = "saved" THEN saveEventId(r, eventId, f)
                                  ELSE dismissEventId(r, eventId, f)
            once == add(raw, id, full)
        IN  /\ once.threw => once.raw = raw
            /\ ~once.threw
                => /\ Count(once.raw, id) = 1
                   /\ \A other \in StoreIds \ {id} : Count(once.raw, other) = Count(raw, other)
                   /\ Contains(raw, id) => once.raw = raw
                   /\ \A again \in BOOLEAN :
                         LET twice == add(once.raw, id, again)
                         IN  ~twice.threw /\ twice.raw = once.raw

NoDuplicates(r) ==
    (~r.threw /\ r.val.kind = "array") => \A id \in StoreIds : Count(r.val, id) <= 1

\* C17: saveEventId and dismissEventId insert the id only if it is not yet
\* present: a second call in a row changes nothing (and needs no write), an
\* id that was saved or dismissed is in its list exactly once, and the lists
\* read back by getSavedEventIds and getDismissedEventIds never hold an id
\* twice.
C17_AddIsIdempotentNoDuplicates ==
    /\ \A id \in StoreIds :
          /\ AddedOnce("saved", saved, id)
          /\ AddedOnce("dismissed", dismissed, id)
    /\ NoDuplicates(getSavedEventIds(saved))
    /\ NoDuplicates(getDismissedEventIds(dismissed))
    /\ (step.op = "saveEventId" /\ step.outcome = "ok") => Count(saved, step.id) = 1
    /\ (step.op = "dismissEventId" /\ step.outcome = "ok") => Count(dismissed, step.id) = 1

\* saveEventId(1) was called when 1 was already saved, after 2: the list is as
\* it was before the call
C17_Witness ==
    /\ step = Did("saveEventId", NoEvent, 1, NoDirection, "ok")
    /\ trip = [id |-> 1, before |-> Arr(<<2, 1>>), done |-> FALSE]
    /\ saved = Arr(<<2, 1>>)

\* C18: the saved and the dismissed list are independent: saveEventId and
\* removeEventId leave the dismissed list as it is - the same ids in the same
\* order, so the same answer for every id - and dismissEventId and
\* clearDismissed leave the saved list as it is, whether the call returns or
\* throws; clearDismissed empties the dismissed list.
C18_SetsAreIndependent ==
    [][/\ step'.op \in {"saveEventId", "removeEventId", "isEventSaved", "getSavedEventIds"}
            => dismissed' = dismissed
       /\ step'.op \in {"dismissEventId", "clearDismissed", "getDismissedEventIds"}
            => saved' = saved
       /\ step'.op = "clearDismissed"
            => getDismissedEventIds(dismissed') = Returned(Arr(<<>>))]_vars

\* clearDismissed was called with two saved events: they are still saved, in
\* their order
C18_Witness ==
    /\ step = Did("clearDismissed", NoEvent, NoEvent, NoDirection, "ok")
    /\ saved = Arr(<<2, 1>>)
    /\ dismissed = Absent
    /\ trip = [id |-> 1, before |-> Arr(<<2>>), done |-> FALSE]

\* the items the source holds when getEventsByIds is called: in demo mode the
\* demo storage (seeded when the key is absent or unparseable), else the table
\* the backend answers from
SourceItems(answer) ==
    IF isE2EDemoMode
    THEN IF demoEvents.kind \in {"absent", "nonjson"} THEN getSeedDemoEvents
         ELSE demoEvents.items
    ELSE IF answer.response = "data" THEN answer.rows ELSE <<>>

\* the backend is configured and answers without an error, or the demo
\* storage stands in for it
SourceAnswers(answer) ==
    \/ isE2EDemoMode
    \/ isSupabaseConfigured /\ answer.response \in {"data", "null"}

\* C19: getEventsByIds(ids) on a source that answers returns success with
\* exactly the items of the source whose id occurs in ids, each once; ids
\* that match no item are left out without an error; an empty list of ids
\* and a list of unknown ids give success with the empty sequence.
C19_ByIdsReturnsTheMatchingItems ==
    [][\A ids \in IdLists, full \in BOOLEAN, answer \in Answers :
        (/\ step'.op = "getEventsByIds"
         /\ GetEventsByIds(ids, full, answer)
         /\ ids = <<>> \/ SourceAnswers(answer))
        => LET found == {e \in Range(SourceItems(answer)) : e.id \in Range(ids)}
           IN  /\ result'.tag = "ok"
               /\ Range(result'.data) = found
               /\ Len(result'.data) = Cardinality(found)]_vars

\* getEventsByIds with one unknown id in demo mode on a key that holds JSON
\* that is not an array
C19_Witness ==
    /\ step.op = "getEventsByIds"
    /\ mode = "demo"
    /\ demoEvents = DemoNotArray
    /\ result = Rejected("TypeError")

\* the source answers and holds no item with this id
AbsentFromSource(id, answer) ==
    /\ \A e \in Range(SourceItems(answer)) : e.id # id
    /\ \/ isE2EDemoMode
       \/ isSupabaseConfigured /\ answer.response \in {"data", "null", "PGRST116"}

\* C20: getEventById, updateEvent and deleteEvent called with an id (not the
\* empty one) that no item of the source has return the failure NotFoundError:
\* not a success, not a DatabaseError or ValidationError, and no rejection.
C20_AbsentIdIsNotFound ==
    [][/\ step'.op \in {"getEventById", "updateEvent"}
            => \A id \in SourceIds \ {NoEvent}, patch \in Patches, full \in BOOLEAN,
                  answer \in Answers :
                    (/\ GetEventById(id, full, answer) \/ UpdateEvent(id, patch, full, answer)
                     /\ AbsentFromSource(id, answer))
                    => result' = err("NotFoundError")
       /\ step'.op = "deleteEvent"
            => \A id \in SourceIds \ {NoEvent}, full \in BOOLEAN,
                  response \in DeleteAnswers \ {"data", "throw"}, response2 \in DeleteAnswers :
                    (/\ DeleteEvent(id, full, response, response2)
                     /\ AbsentFromSource(id, Answer("null", <<>>)))
                    => result' = err("NotFoundError")]_vars

\* deleteEvent of an id in demo mode on a key that holds JSON that is not an
\* array
C20_Witness ==
    /\ step = Did("deleteEvent", NoEvent, 3, NoDirection, "throw")
    /\ mode = "demo"
    /\ demoEvents = DemoNotArray
    /\ result = Rejected("TypeError")

\* The call that settled in the last step was the newest one of a mounted
\* screen, with the effect that started it still in place.
CurrentSettled ==
    /\ step'.op = "resolve"
    /\ step'.id = Len(fetches)
    /\ mounted
    /\ ~fetches[step'.id].cancelled

\* the load state a settled call leaves, by what it settled to
SettledState(r) ==
    IF r.tag = "ok" THEN "success"
    ELSE IF page = "event" /\ r.error = "NotFoundError" THEN "not-found"
    ELSE "error"

\* C21: a screen whose fetch fails enters the error state, where Try Again is
\* shown; Try Again starts exactly one new fetch and puts the screen back
\* into loading; and when that fetch settles the screen is in success or
\* error according to its result, after any number of failures.
C21_RetryFetchSettlesTheScreen ==
    [][/\ step'.op = "handleRetry"
            => /\ Len(fetches') = Len(fetches) + 1
               /\ ~fetches'[Len(fetches')].settled
               /\ \A i \in DOMAIN fetches : fetches[i].settled \/ fetches'[i].cancelled
               /\ loadingState' = "loading"
       /\ CurrentSettled
            => /\ loadingState' = SettledState(result')
               /\ result'.tag # "ok" => loadingState' # "loading"]_vars

\* the first load of Home in demo mode was rejected and the screen is still
\* loading, with no call pending
C21_Witness ==
    /\ page = "home"
    /\ mounted
    /\ step.op = "resolve"
    /\ step.outcome = "rejected"
    /\ loadingState = "loading"
    /\ \A i \in DOMAIN fetches : fetches[i].settled

C28_OnlyTheNewestFetchIsApplied ==
    [][(step'.op = "resolve" /\ step'.id < Len(fetches))
        => /\ step'.outcome # "applied"
           /\ UNCHANGED <<loadingState, events>>]_vars

\* the saved page: the detail view was closed twice, the second reload has
\* settled, and the data of the first one arrived after it and was dropped
C28_Witness ==
    /\ page = "saved"
    /\ mounted
    /\ step.op = "resolve"
    /\ step.id < Len(fetches)
    /\ step.outcome = "dropped"
    /\ result.tag = "ok"
    /\ fetches[Len(fetches)].trigger = "closeDetail"
    /\ fetches[Len(fetches)].settled
    /\ loadingState = "error"

\* the items of the demo store and the item the last call returned
WrittenItems ==
    (IF demoEvents.kind = "array" THEN Range(demoEvents.items) ELSE {})
        \cup (IF result.tag = "ok" THEN Range(result.data) ELSE {})

\* C23: every item that a create or an update with validated input leaves
\* in the store or returns has no end, or an end that is not earlier than
\* its start, also when the update gave only one of the two timestamps.
C23_EndNotBeforeStart ==
    \A e \in WrittenItems : e.end = NoEnd \/ e.end >= e.start

\* an update that gave only a start_date has left the item with an earlier
\* end_date
C23_Witness ==
    /\ step.op = "updateEvent"
    /\ result.tag = "ok"
    /\ result.data[1].end # NoEnd
    /\ result.data[1].end < result.data[1].start

\* C24: right after the page is reloaded, no event whose id is in the stored
\* dismissed list is among the cards the deck shows.
C24_DismissedNotShownAfterReload ==
    step.op = "reload"
        => \A i \in 1..Len(visibleEvents) : ~Contains(dismissed, visibleEvents[i])

\* the first card was swiped left and stored as dismissed, the page was
\* reloaded, and the card is on top of the deck again
C24_Witness ==
    /\ step.op = "reload"
    /\ Contains(dismissed, 1)
    /\ render.view = "stack"
    /\ currentEvent = 1

C25_GuardIsReleased ==
    (exitDirection # NoDirection) ~> (exitDirection = NoDirection)

\* the completion callback of the exit has run and was aborted by the store
\* throwing: no animation is left, the guard is still closed, and the next
\* button press was ignored
C25_Witness ==
    /\ step.op = "button"
    /\ step.outcome = "ignored"
    /\ hasMoreEvents
    /\ exitDirection # NoDirection
    /\ anim = NoDirection
    /\ isAnimating

\* C26: a store or the cursor changes for an item only by the commit of an
\* input that the user made on that item while it was the top card (a drag
\* release beyond the threshold, or an accepted button or key press whose
\* exit animation has ended), and in that input's direction: right writes
\* only the saved list, left only the dismissed list.
C26_DecisionOnlyForTheCardActedOn ==
    [][(tracking /\ (saved' # saved \/ dismissed' # dismissed \/ currentIndex' > currentIndex))
        => /\ step'.op \in {"drag", "animation", "staleAnimation"}
           /\ step'.outcome = "commit"
           /\ step'.id = eventAt(currentIndex)
           /\ step'.card = step'.id
           /\ step'.dir = "right" => (dismissed' = dismissed /\ Contains(saved', step'.id))
           /\ step'.dir = "left" => (saved' = saved /\ Contains(dismissed', step'.id))]_vars

\* Pass was pressed on card 1, card 1 was dragged away before its exit
\* ended, and the exit's completion then dismissed card 2, which the user
\* never touched
C26_Witness ==
    /\ tracking
    /\ step.op = "staleAnimation"
    /\ step.outcome = "commit"
    /\ step.card = 1
    /\ step.id = 2
    /\ step.dir = "left"
    /\ Contains(dismissed, 2)
    /\ currentIndex = 2

\* the client's window is open: a request of it was let through at most
\* RATE_LIMIT_WINDOW ms ago and opened it
InWindow(key) ==
    /\ admitted[key].n > 0
    /\ now <= admitted[key].open + RATE_LIMIT_WINDOW

\* C29: of the non-GET requests to /admin of one client, at most
\* MAX_REQUESTS_PER_WINDOW are let through within one window (from the
\* request that opens it to its reset time RATE_LIMIT_WINDOW ms later); every
\* further one in the window is answered with 429 and counted nowhere; a
\* fresh count starts only after the reset time; and other requests and other
\* clients do not touch the client's count.
C29_AtMostMaxPerWindow ==
    [][/\ step'.op = "middleware"
            => LET key == step'.id
               IN  /\ admitted'[key].n <= MAX_REQUESTS_PER_WINDOW
                   /\ (InWindow(key) /\ admitted[key].n >= MAX_REQUESTS_PER_WINDOW)
                        => (step'.outcome = "429" /\ rateLimitStore' = rateLimitStore)
                   /\ (InWindow(key) /\ admitted[key].n < MAX_REQUESTS_PER_WINDOW)
                        => (step'.outcome # "429"
                            /\ rateLimitStore'[key].count = admitted[key].n + 1
                            /\ rateLimitStore'[key].resetTime = rateLimitStore[key].resetTime)
                   /\ ~InWindow(key)
                        => (step'.outcome # "429"
                            /\ rateLimitStore'[key] = Record(1, now + RATE_LIMIT_WINDOW))
                   /\ \A other \in Clients \ {key} :
                        rateLimitStore'[other] = rateLimitStore[other]
       /\ step'.op = "pass" => rateLimitStore' = rateLimitStore]_vars

\* at its reset time exactly, client 1 has had MAX_REQUESTS_PER_WINDOW
\* requests let through and its next one was answered with 429, while
\* client 2 is in a window of its own
C29_Witness ==
    /\ step.op = "middleware"
    /\ step.id = 1
    /\ step.outcome = "429"
    /\ admitted[1].n = MAX_REQUESTS_PER_WINDOW
    /\ now = admitted[1].open + RATE_LIMIT_WINDOW
    /\ admitted[2].n = 1
    /\ admitted[2].open = 1

\* the list getDemoEvents reads from the key: the stored array, or the seed
\* events when the key holds nothing
StoredItems(raw) == getDemoEvents(raw, FALSE).val.items

\* C30: in demo mode a delete(id) that succeeds removes exactly that item
\* from the stored list: afterwards getById(id) answers NotFound, the list
\* of all events has no item with that id, and the other stored items are
\* there as before, in their order.
C30_DeleteRemovesExactlyThatItem ==
    [][(step'.op = "deleteEvent" /\ mode = "demo" /\ result'.tag = "ok")
        => LET id == step'.id
               before == StoredItems(demoEvents)
           IN  /\ demoEvents'.kind = "array"
               /\ demoEvents'.items = SelectSeq(before, LAMBDA e : e.id # id)
               /\ Len(demoEvents'.items) = Len(before) - 1
               /\ \A full \in BOOLEAN :
                    /\ getEventById(id, demoEvents', full, "data", <<>>)
                         = [result |-> err("NotFoundError"), raw |-> demoEvents']
                    /\ LET all == getAllEvents(demoEvents', full, "data", <<>>)
                       IN  /\ all.result.tag = "ok"
                           /\ all.raw = demoEvents'
                           /\ Range(all.result.data) = Range(before) \ {e \in Range(before) : e.id = id}]_vars

\* event 2 of the three seed events was deleted
C30_Witness ==
    /\ step.op = "deleteEvent"
    /\ step.id = 2
    /\ mode = "demo"
    /\ result.tag = "ok"
    /\ demoEvents = DemoArr(<<Item(1, 1), Item(3, 30)>>)
====
